---------------------------- MODULE Spec2Model ----------------------------
(***************************************************************************)
(* A model of the DNS scanner (src/python/dnsscanner_tui.py): the address  *)
(* stream generator, the probe scheduler with its pause gate, the ranking  *)
(* table and the slipstream validation subsystem.                          *)
(*                                                                         *)
(* One action is the code between two suspension points of a coroutine of  *)
(* the single-threaded asyncio event loop.  Addresses are 32-bit integers  *)
(* (a.b.c.d = ((a*256+b)*256+c)*256+d); times are milliseconds.            *)
(***************************************************************************)
EXTENDS Integers, Sequences, FiniteSets, TLC

(***************************************************************************)
(* Bounds of the model.                                                    *)
(***************************************************************************)
\* chunk_size is 500 in the source (lines 946 and 1061); the model runs the
\* same code with a small chunk so that several chunks are produced.
chunk_size == 2
\* Longest CIDR file (in lines) of the stream specification.
MaxLines == 3
\* The generator cuts a range into blocks of 2^8 addresses (the literal 24
\* of lines 1090 and 1093 is the prefix 32 - 8); the model runs the same
\* code with blocks of 2^BlockBits addresses, so that every order in which
\* the blocks and the hosts of a block can be shuffled is followed.
BlockBits == 2
\* Number of draws of the random source that a pull of the generator
\* explores: every order of MaxLines networks with every order of the two
\* blocks of a range and of the two hosts of a block.
NumSeeds == 24
\* Largest probe concurrency entered in the start form.
MaxConcurrency == 2
\* Number of live resolvers of the validation specification.
NumCandidates == 3
\* slipstream_max_concurrent is 3 in the source (line 621); the model runs
\* the same code with two slots and two ports, one fewer than NumCandidates,
\* so that a resolver waits behind full slots from every order in which the
\* candidates were found.
slipstream_max_concurrent == 2

(***************************************************************************)
(* Program constants.                                                      *)
(***************************************************************************)
AddrBits == 32
\* Lines 1090 and 1093: the prefix of the blocks a range is cut into.
SubBlockPrefix == AddrBits - BlockBits
slipstream_base_port == 10800

(***************************************************************************)
(* IPv4 networks (ipaddress.IPv4Network, as the generator uses it).        *)
(***************************************************************************)
RECURSIVE Pow2(_)
Pow2(n) == IF n = 0 THEN 1 ELSE 2 * Pow2(n - 1)

IP(a, b, c, d) == ((a * 256 + b) * 256 + c) * 256 + d

\* A line of the CIDR file: blank, a comment (#...), text that is no CIDR
\* block, or "addr/prefix" (prefix possibly out of range).
Line(k, a, p) == [kind |-> k, addr |-> a, prefix |-> p]
BlankLine == Line("blank", 0, 0)
CommentLine == Line("comment", 0, 0)
TextLine == Line("text", 0, 0)
Cidr(a, p) == Line("cidr", a, p)

\* line.strip() is non-empty and does not start with '#'.
IsEntry(line) == line.kind \notin {"blank", "comment"}

\* ipaddress.IPv4Network(line, strict=False) raises on this line.
ParseFails(line) ==
    \/ line.kind # "cidr"
    \/ line.prefix < 0
    \/ line.prefix > AddrBits
    \/ line.addr < 0

\* ipaddress.IPv4Network(line, strict=False): the host bits are masked off.
ParseNetwork(line) ==
    LET size == Pow2(AddrBits - line.prefix)
    IN  [addr |-> line.addr - (line.addr % size), prefix |-> line.prefix]

num_addresses(net) == Pow2(AddrBits - net.prefix)

\* hosts() that leaves out the last usable address as well.
hostsMutShort(net) ==
    [i \in 1..(num_addresses(net) - 3) |-> net.addr + i]

\* IPv4Network.hosts(): all addresses but the network and the broadcast
\* address; a /31 has both its addresses, a /32 its one address.
hosts(net) ==
    IF net.prefix >= AddrBits - 1
    THEN [i \in 1..num_addresses(net) |-> net.addr + i - 1]
    ELSE [i \in 1..(num_addresses(net) - 2) |-> net.addr + i]

\* IPv4Network.subnets(new_prefix=...), for a prefix below new_prefix.
subnets(net, new_prefix) ==
    LET size == Pow2(AddrBits - new_prefix)
        n == Pow2(new_prefix - net.prefix)
    IN  [i \in 1..n |-> [addr |-> net.addr + (i - 1) * size, prefix |-> new_prefix]]

(***************************************************************************)
(* The random source.  secrets.SystemRandom().shuffle(list) leaves the     *)
(* list in a permutation that the operating system's entropy decides; a    *)
(* draw is a natural number read as the index of the permutation in the    *)
(* factorial number system: its digit modulo the length picks the first    *)
(* element, the quotient orders the rest.  Every permutation of a list of  *)
(* n elements is the outcome of one draw below n!.  Each shuffle takes the *)
(* digits it needs and leaves the quotient to the shuffle after it.        *)
(***************************************************************************)
RemoveAt(s, i) == [j \in 1..(Len(s) - 1) |-> IF j < i THEN s[j] ELSE s[j + 1]]

RECURSIVE shuffle(_, _)
shuffle(s, sd) ==
    IF Len(s) <= 1 \/ sd = 0 THEN s
    ELSE LET i == (sd % Len(s)) + 1
         IN  <<s[i]>> \o shuffle(RemoveAt(s, i), sd \div Len(s))

\* What a shuffle of n elements leaves of the draw.
RECURSIVE next_draw(_, _)
next_draw(sd, n) ==
    IF n <= 1 \/ sd = 0 THEN sd ELSE next_draw(sd \div n, n - 1)

(***************************************************************************)
(* Reading the file.                                                       *)
(***************************************************************************)
\* _count_file_lines: the non-blank, non-comment lines; 0 when the file
\* cannot be opened.
count_file_lines(f, ok) ==
    IF ok THEN Cardinality({i \in 1..Len(f) : IsEntry(f[i])}) ELSE 0

\* read_and_process: the networks of the lines that parse, in file order;
\* the empty list when the file cannot be opened.
RECURSIVE read_lines(_)
read_lines(f) ==
    IF f = <<>> THEN <<>>
    ELSE IF IsEntry(Head(f)) /\ ~ParseFails(Head(f))
         THEN <<ParseNetwork(Head(f))>> \o read_lines(Tail(f))
         ELSE read_lines(Tail(f))

read_and_process(f, ok) == IF ok THEN read_lines(f) ELSE <<>>

(***************************************************************************)
(* _stream_ips_from_file as a coroutine.  Its frame: the networks not yet  *)
(* expanded (subnets), the blocks of the current network not yet           *)
(* expanded (chunks), the addresses of the current block not yet appended  *)
(* (ips), the chunk being filled (chunk) and where it is suspended.        *)
(***************************************************************************)
NewGen == [pc |-> "start", subnets |-> <<>>, chunks |-> <<>>, ips |-> <<>>,
           chunk |-> <<>>]

\* A generator that yields after every address.
ChunkFullMutEach(chunk) == Len(chunk) >= 1

\* "if len(chunk) >= chunk_size: yield chunk", after an address of hosts().
ChunkFull(chunk) == Len(chunk) >= chunk_size

\* A generator that drops the remainder at the end of the input.
HasRemainderMutDrop(chunk) == FALSE

\* "if chunk: yield chunk" at the end of the input.
HasRemainder(chunk) == chunk # <<>>

\* The generator runs from where it is to its next yield or to its end; sd
\* is the draw of the random source for the shuffles of this run.
\* gen_run takes the frame as a value (it is evaluated once, not once for
\* every use in gen_step).
RECURSIVE gen_run(_, _)
RECURSIVE gen_step(_, _)
gen_run(g, sd) == CHOOSE r \in {gen_step(h, sd) : h \in {g}} : TRUE

gen_step(g, sd) ==
    IF g.ips # <<>>
    THEN \* for ip in ips: chunk.append(str(ip)); yield when the chunk is full
         LET c == Append(g.chunk, Head(g.ips))
             g1 == [g EXCEPT !.ips = Tail(g.ips), !.chunk = c]
         IN  IF ChunkFull(c) THEN [g1 EXCEPT !.pc = "yielded"] ELSE gen_run(g1, sd)
    ELSE IF g.chunks # <<>>
    THEN \* for subnet_chunk in chunks
         LET b == Head(g.chunks)
             ips == hosts(b)
         IN  IF num_addresses(b) = 1
             THEN gen_run([g EXCEPT !.chunks = Tail(g.chunks),
                                    !.chunk = Append(g.chunk, b.addr)], sd)
             ELSE gen_run([g EXCEPT !.chunks = Tail(g.chunks),
                                    !.ips = shuffle(ips, sd)],
                          next_draw(sd, Len(ips)))
    ELSE IF g.subnets # <<>>
    THEN \* for net in subnets: split into blocks and shuffle them
         LET net == Head(g.subnets)
             blocks == IF net.prefix >= SubBlockPrefix THEN <<net>>
                       ELSE subnets(net, SubBlockPrefix)
         IN  gen_run([g EXCEPT !.subnets = Tail(g.subnets),
                               !.chunks = shuffle(blocks, sd)],
                     next_draw(sd, Len(blocks)))
    ELSE \* end of the input: the remainder, if any
         IF HasRemainder(g.chunk) THEN [g EXCEPT !.pc = "last"]
         ELSE [g EXCEPT !.pc = "done"]

\* __anext__: the frame after the generator is resumed.  In "yielded" and
\* "last" the field chunk is the chunk handed to the consumer; in "done" the
\* iteration has stopped.
stream_next(g, f, ok, sd) ==
    CASE g.pc = "start" ->
            LET nets == read_and_process(f, ok)
            IN  gen_run([g EXCEPT !.subnets = shuffle(nets, sd)],
                        next_draw(sd, Len(nets)))
      [] g.pc = "yielded" -> gen_run([g EXCEPT !.chunk = <<>>], sd)
      [] g.pc = "last" -> [g EXCEPT !.pc = "done", !.chunk = <<>>]
      [] OTHER -> g

(***************************************************************************)
(* _test_dns: the classification of one DNS query.  An outcome of the      *)
(* query is what resolver.query did and the time it took.                  *)
(***************************************************************************)
Outcome(k, c, ms) == [kind |-> k, code |-> c, elapsed |-> ms]

\* The cut-off "elapsed < 2.0", in milliseconds.
CutoffMs == 2000

\* A classification that also takes a refused query for a working server.
WorkingCodesMutRefused == {1, 3, 4, 11}

\* The DNS error codes that show a working server.
WorkingCodes == {1, 3, 4}

\* The result tuple (ip, is_valid, response_time) of _test_dns.
test_dns(ip, o) ==
    CASE o.kind = "answer" ->
            IF o.elapsed < CutoffMs THEN [ip |-> ip, live |-> TRUE, rt |-> o.elapsed]
            ELSE [ip |-> ip, live |-> FALSE, rt |-> 0]
      [] o.kind = "dnserror" ->
            IF o.code \in WorkingCodes /\ o.elapsed < CutoffMs
            THEN [ip |-> ip, live |-> TRUE, rt |-> o.elapsed]
            ELSE [ip |-> ip, live |-> FALSE, rt |-> 0]
      [] OTHER -> \* an empty result, asyncio.TimeoutError, any other exception
            [ip |-> ip, live |-> FALSE, rt |-> 0]

\* "async with sem" (line 1195) can enter: the semaphore's value is positive.
ProbeSlotFreeMutAlways(v) == TRUE

ProbeSlotFree(v) == v > 0

(***************************************************************************)
(* _test_slipstream_proxy: the outcome of one validation, from what the    *)
(* subprocess and the two proxy requests did.                              *)
(***************************************************************************)
ProxyEnv(l, r, h, s) == [launch |-> l, ready |-> r, http |-> h, socks |-> s]

GoodStatus == {200, 301, 302}

\* http and socks are the status code of the response, or 0 when the request
\* raised.  The SOCKS5 request is made only when the HTTP request raised.
test_slipstream_proxy(env) ==
    IF env.launch # "ok" THEN "Failed"
    ELSE IF env.ready # "marker" THEN "Failed"
    ELSE IF env.http # 0
         THEN (IF env.http \in GoodStatus THEN "Success" ELSE "Failed")
         ELSE (IF env.socks \in GoodStatus THEN "Success" ELSE "Failed")

\* "async with self.slipstream_semaphore" (line 1347) can enter.
ValidationSlotFreeMutAlways(v) == TRUE

ValidationSlotFree(v) == v > 0

\* A pool with one port less than the semaphore has slots.
port_poolMutShort ==
    [i \in 1..(slipstream_max_concurrent - 1) |-> slipstream_base_port + i - 1]

\* deque(range(base_port, base_port + max_concurrent))
port_pool ==
    [i \in 1..slipstream_max_concurrent |-> slipstream_base_port + i - 1]

\* An exit of 'async with' that keeps the slot.
release_slotMutKeep(v) == v

\* The end of "async with self.slipstream_semaphore" (line 1347): release().
release_slot(v) == v + 1

\* self.available_ports.popleft(): the deque that is left.
take_portMutPeek(ports) == ports

take_port(ports) == Tail(ports)

\* A finally block that forgets the port.
return_portMutLeak(ports, p) == ports

\* self.available_ports.append(port)
return_port(ports, p) == Append(ports, p)

\* The tunnel-client subprocess of a validation: "none" (the launch failed),
\* "running", "killed" (process.kill() sent, the exit status not yet
\* collected) or "reaped"; met is what the validation met.
Process(st, env) == [state |-> st, met |-> env]

\* process.kill()
kill_process(p) == [p EXCEPT !.state = "killed"]

\* await process.wait()
wait_process(p) == [p EXCEPT !.state = "reaped"]

(***************************************************************************)
(* The results: found_servers, server_times (a dict, in insertion order),  *)
(* proxy_results (a dict) and the rows of the table.                       *)
(***************************************************************************)
\* self.proxy_results.get(ip, "N/A")
proxy_status(pr, ip) == IF ip \in DOMAIN pr THEN pr[ip] ELSE "N/A"

\* self.proxy_results[ip] = status
set_status(pr, ip, status) ==
    [x \in (DOMAIN pr) \cup {ip} |-> IF x = ip THEN status ELSE pr[x]]

\* self.server_times[ip] = response_time: a known key keeps its place.
set_time(st, ip, rt) ==
    IF \E i \in 1..Len(st) : st[i].ip = ip
    THEN [i \in 1..Len(st) |-> IF st[i].ip = ip THEN [ip |-> ip, rt |-> rt] ELSE st[i]]
    ELSE Append(st, [ip |-> ip, rt |-> rt])

\* The items in insertion order, not sorted.
sorted_by_timeMutUnsorted(st) == st

\* sorted(self.server_times.items(), key=lambda x: x[1]): stable.
\* The item at place k is the one with k - 1 items before it: those of a
\* smaller time and those of the same time that come earlier in the dict.
sorted_by_time(st) ==
    [k \in 1..Len(st) |->
        st[CHOOSE i \in 1..Len(st) :
              Cardinality({j \in 1..Len(st) :
                              \/ st[j].rt < st[i].rt
                              \/ st[j].rt = st[i].rt /\ j < i}) = k - 1]]

Row(ip, rt, pr) == [ip |-> ip, rt |-> rt, proxy |-> proxy_status(pr, ip)]

\* Line 1308: table.clear()
table_clear(t) == <<>>

\* _rebuild_table, lines 1300-1343
rebuild_table(R) ==
    IF ~R.table_needs_rebuild THEN R
    ELSE CHOOSE r \in
            {[R0 EXCEPT !.table = table_clear(@) \o
                                     [i \in 1..Len(s) |->
                                         Row(s[i].ip, s[i].rt, R0.proxy_results)],
                        !.table_needs_rebuild = FALSE] :
                R0 \in {R}, s \in {sorted_by_time(R.server_times)}} : TRUE

\* _update_table_row
update_table_row(R) ==
    CHOOSE r \in {rebuild_table(R1) :
                     R1 \in {[R EXCEPT !.table_needs_rebuild = TRUE]}} : TRUE

\* _add_result; due: two seconds have passed since the last periodic rebuild.
add_result(R, ip, rt, due) ==
    LET R1 == [R EXCEPT !.found_servers = @ \cup {ip},
                        !.server_times = set_time(@, ip, rt),
                        !.table = Append(@, Row(ip, rt, R.proxy_results)),
                        !.table_needs_rebuild = TRUE]
    IN  IF due THEN rebuild_table(R1) ELSE R1

\* A validation task (_queue_slipstream_test) that has just been created.
\* must_cancel: cancel() was called on the task and the CancelledError is
\* not yet raised in it.
NewValidation == [pc |-> "sem", port |-> 0, must_cancel |-> FALSE]

\* _process_result, for the result of probe task t.
process_result(R, t, res, slip, due) ==
    LET R1 == [R EXCEPT !.current_scanned = @ + 1]
    IN  IF ~res.live THEN R1
        ELSE LET R2 == add_result(R1, res.ip, res.rt, due)
             IN  IF ~slip THEN R2
                 ELSE [R2 EXCEPT
                         !.proxy_results = set_status(@, res.ip, "Pending"),
                         !.vtasks = [v \in (DOMAIN @) \cup {t} |->
                                        IF v = t THEN NewValidation ELSE @[v]],
                         !.slipstream_tasks = @ \cup {t}]

\* The rows tb list every resolver of st once, with its latency and its
\* status in pr, by ascending latency and, at equal latency, in the order
\* of discovery.
TableRanked(tb, st, pr) ==
    /\ Len(tb) = Len(st)
    /\ \A k \in 1..Len(st) :
          Cardinality({i \in 1..Len(tb) : tb[i].ip = st[k].ip}) = 1
    /\ \A i \in 1..Len(tb) :
          /\ \E k \in 1..Len(st) : st[k].ip = tb[i].ip /\ st[k].rt = tb[i].rt
          /\ tb[i].proxy = proxy_status(pr, tb[i].ip)
    /\ \A i, j \in 1..Len(tb) :
          i < j =>
             \/ tb[i].rt < tb[j].rt
             \/ /\ tb[i].rt = tb[j].rt
                /\ \E k, l \in 1..Len(st) :
                      k < l /\ st[k].ip = tb[i].ip /\ st[l].ip = tb[j].ip

\* The rows of R list the discovered resolvers, ranked.
table_ranked(R) ==
    /\ TableRanked(R.table, R.server_times, R.proxy_results)
    /\ {R.table[i].ip : i \in 1..Len(R.table)} = R.found_servers

(***************************************************************************)
(* The clock of the ranking table.  _add_result reads time.time() (line    *)
(* 1295) and compares it with last_table_update_time, which _scan_async    *)
(* sets to the start time (line 902).  The record tbl holds the time in    *)
(* seconds since the start of the scan, last_table_update_time, and what   *)
(* the rebuilds so far have done: the times of the two most recent ones    *)
(* that were not the rebuilds of the scan's end (-1: none yet), a bit that *)
(* flips at each rebuild, and whether every rebuild so far has left the    *)
(* table ranked.  A scan that is followed without its clock has            *)
(* tbl = NoTable, and the test of line 1296 may then go either way.        *)
(***************************************************************************)
MaxTime == 2

\* Line 1296: current_time - self.last_table_update_time >= 2.0
RebuildInterval == 2

NewTable ==
    [pc |-> "clock", now |-> 0, last_table_update_time |-> 0,
     last_rebuild |-> -1, prev_rebuild |-> -1, flip |-> FALSE, ranked |-> TRUE]

\* Line 902: self.last_table_update_time = self.start_time
start_clock(t) ==
    IF t.pc = "none" THEN t ELSE [t EXCEPT !.last_table_update_time = t.now]

\* A rebuild got past the test of line 1302 at time t.now and left R.
rebuild_ran(t, R) ==
    IF t.pc = "none" THEN t
    ELSE [t EXCEPT !.prev_rebuild = t.last_rebuild, !.last_rebuild = t.now,
                   !.flip = ~@, !.ranked = @ /\ table_ranked(R)]

\* _rebuild_table at the scan's end (lines 996 and 1003), called on R0 and
\* leaving R: it runs when the table is marked.
end_rebuild(t, R0, R) ==
    IF t.pc = "none" \/ ~R0.table_needs_rebuild THEN t
    ELSE [t EXCEPT !.flip = ~@, !.ranked = @ /\ table_ranked(R)]

(***************************************************************************)
(* State.                                                                  *)
(***************************************************************************)
VARIABLES
    \* the start form and the environment
    subnet_file,        \* the lines of the CIDR file
    readable,           \* whether the file can be opened
    concurrency,        \* self.concurrency
    test_slipstream,    \* self.test_slipstream
    \* the address stream
    gen,                \* the frame of _stream_ips_from_file
    ip_chunk,           \* the chunk the generator handed over last
    emitted,            \* every address handed over so far, in order
    \* the scheduler (_scan_async)
    sched_pc,           \* where _scan_async is
    active_tasks,       \* the probe tasks not yet processed
    sem,                \* the value of the probe semaphore
    tasks,              \* the probe tasks, in creation order
    report,             \* what the scan told the user at its end
    auto_saved,         \* what _auto_save_results wrote
    \* the pause gate
    scan_started, is_paused, pause_event,
    \* the results
    current_scanned, found_servers, server_times, proxy_results,
    table, table_needs_rebuild,
    \* the validation subsystem
    slipstream_semaphore,  \* the value of the validation semaphore
    available_ports,       \* the deque of free ports
    vtasks,                \* the validation tasks, by the probe task they follow
    slipstream_tasks,      \* self.slipstream_tasks: the validation tasks not yet discarded
    \* the units that are also run on their own
    probe,                 \* one call of _test_dns: its input and its result
    processes,             \* the tunnel-client subprocess of each validation
    dl,                    \* SlipstreamManager.download: its locals and the files
    saved,                 \* what action_save_results wrote
    tbl,                   \* the clock of the ranking table and what its rebuilds did
    ptest                  \* one call of _test_slipstream_proxy, step by step

formVars == <<subnet_file, readable, concurrency, test_slipstream>>
streamVars == <<gen, ip_chunk, emitted>>
gateVars == <<scan_started, is_paused, pause_event>>
resultVars == <<current_scanned, found_servers, server_times, proxy_results,
                table, table_needs_rebuild, vtasks, slipstream_tasks>>
schedVars == <<sched_pc, active_tasks, sem, tasks, report, auto_saved>>
poolVars == <<slipstream_semaphore, available_ports>>
scanVars == <<formVars, streamVars, gateVars, resultVars, schedVars, poolVars>>
unitVars == <<probe, processes, dl, saved, tbl, ptest>>
\* The units without the clock of the ranking table.
otherUnits == <<probe, processes, dl, saved, ptest>>

vars == <<scanVars, unitVars>>

\* No call of _test_dns on its own, no subprocess, no download.
NoProbe == [pc |-> "none", ip |-> 0, outcome |-> Outcome("none", 0, 0),
            result |-> [ip |-> 0, live |-> FALSE, rt |-> 0]]
NoDownload == [pc |-> "none"]
\* No save yet: no file written, nothing reported.
NoSave == [state |-> "none", files |-> {}, ips |-> <<>>, servers |-> <<>>]
\* The scan is followed without the clock of the ranking table.
NoTable == [pc |-> "none"]

NoProxyTest == [pc |-> "none"]
IdleUnits ==
    /\ probe = NoProbe /\ processes = <<>> /\ dl = NoDownload /\ saved = NoSave
    /\ tbl = NoTable /\ ptest = NoProxyTest

\* The result fields as one record, and back.
Results ==
    [current_scanned |-> current_scanned, found_servers |-> found_servers,
     server_times |-> server_times, proxy_results |-> proxy_results,
     table |-> table, table_needs_rebuild |-> table_needs_rebuild,
     vtasks |-> vtasks, slipstream_tasks |-> slipstream_tasks]

SetResults(R) ==
    /\ current_scanned' = R.current_scanned
    /\ found_servers' = R.found_servers
    /\ server_times' = R.server_times
    /\ proxy_results' = R.proxy_results
    /\ table' = R.table
    /\ table_needs_rebuild' = R.table_needs_rebuild
    /\ vtasks' = R.vtasks
    /\ slipstream_tasks' = R.slipstream_tasks

\* The result fields of a DNSScannerTUI after __init__ (lines 607-626).
FreshResults ==
    [current_scanned |-> 0, found_servers |-> {}, server_times |-> <<>>,
     proxy_results |-> <<>>, table |-> <<>>, table_needs_rebuild |-> FALSE,
     vtasks |-> <<>>, slipstream_tasks |-> {}]

InitResults(R) ==
    /\ current_scanned = R.current_scanned
    /\ found_servers = R.found_servers
    /\ server_times = R.server_times
    /\ proxy_results = R.proxy_results
    /\ table = R.table
    /\ table_needs_rebuild = R.table_needs_rebuild
    /\ vtasks = R.vtasks
    /\ slipstream_tasks = R.slipstream_tasks

EmptyResults == InitResults(FreshResults)

SeqsUpTo(S, n) == UNION { [1..k -> S] : k \in 0..n }

\* The draws of the random source: each resumption of the generator takes
\* one of them (secrets.SystemRandom keeps no state).
Seeds == 0..(NumSeeds - 1)

(***************************************************************************)
(* The scan specification: one scan, from the start form to its end.       *)
(***************************************************************************)
A1 == IP(10, 0, 0, 1)
B30 == IP(10, 0, 2, 5)

\* The CIDR files of the scan specification.
ScanFiles ==
    { <<>>,
      <<CommentLine, BlankLine>>,
      <<TextLine>>,
      <<Cidr(A1, 32), Cidr(B30, 30), TextLine>>,
      <<Cidr(A1, 32), Cidr(A1, 32)>> }

\* What a DNS query of the scan does: an answer in 100 ms, a "domain not
\* found" error in 300 ms, an answer after 2100 ms, a refused connection,
\* an exception.
ScanOutcomes ==
    { Outcome("answer", 0, 100), Outcome("dnserror", 4, 300),
      Outcome("answer", 0, 2100), Outcome("dnserror", 11, 20),
      Outcome("exception", 0, 0) }

\* What a validation of the scan meets.
ScanProxyEnvs ==
    { ProxyEnv("ok", "marker", 200, 0), ProxyEnv("ok", "marker", 0, 302),
      ProxyEnv("ok", "timeout", 0, 0), ProxyEnv("fail", "eof", 0, 0),
      ProxyEnv("ok", "marker", 500, 200) }

\* _start_scan_from_form has read the form, set scan_started and started
\* _scan_async.  A scan with validation is followed for the concurrencies
\* that end it at once and for the largest one.
Init ==
    /\ subnet_file \in ScanFiles
    /\ readable \in BOOLEAN
    /\ concurrency \in (-1)..MaxConcurrency
    /\ test_slipstream \in BOOLEAN
    /\ test_slipstream => concurrency \in {-1, 0, MaxConcurrency}
    /\ gen = NewGen
    /\ ip_chunk = <<>>
    /\ emitted = <<>>
    /\ sched_pc = "reset"
    /\ active_tasks = {}
    /\ sem = 0
    /\ tasks = <<>>
    /\ report = "none"
    /\ auto_saved = NoSave
    /\ scan_started = TRUE
    /\ is_paused = FALSE
    /\ pause_event = TRUE
    /\ EmptyResults
    /\ slipstream_semaphore = 0
    /\ available_ports = <<>>
    /\ IdleUnits

\* A pause that also cancels the probe tasks held at the gate.
PauseScanMutCancel ==
    /\ scan_started /\ ~is_paused
    /\ is_paused' = TRUE
    /\ pause_event' = FALSE
    /\ active_tasks' = {t \in active_tasks : tasks[t].pc \notin {"gate", "paused", "woken"}}
    /\ UNCHANGED <<formVars, unitVars, streamVars, scan_started, resultVars, poolVars,
                   sched_pc, sem, tasks, report, auto_saved>>

\* _pause_scan
PauseScan ==
    /\ scan_started /\ ~is_paused
    /\ is_paused' = TRUE
    /\ pause_event' = FALSE
    /\ UNCHANGED <<formVars, unitVars, streamVars, scan_started, resultVars, schedVars, poolVars>>

\* asyncio.Event.set() resolves the future of every coroutine suspended
\* in wait(): the scheduler at line 952 or 964, a probe task at line 1119.
\* A coroutine released in this way goes on when the loop runs it, whatever
\* the event is by then.
released_sched(pc) ==
    CASE pc = "gate1" -> "woken1"
      [] pc = "gate2" -> "woken2"
      [] OTHER -> pc

released_tasks(T) ==
    [t \in DOMAIN T |-> IF T[t].pc = "paused" THEN [T[t] EXCEPT !.pc = "woken"] ELSE T[t]]

\* _resume_scan
ResumeScan ==
    /\ scan_started /\ is_paused
    /\ is_paused' = FALSE
    /\ pause_event' = TRUE
    /\ sched_pc' = released_sched(sched_pc)
    /\ tasks' = released_tasks(tasks)
    /\ UNCHANGED <<formVars, unitVars, streamVars, scan_started, resultVars, poolVars,
                   active_tasks, sem, report, auto_saved>>

\* _scan_async, lines 882-907: the state of a fresh scan.
ScanReset ==
    /\ sched_pc = "reset"
    /\ sched_pc' = "count"
    /\ current_scanned' = 0
    /\ found_servers' = {}
    /\ server_times' = <<>>
    /\ proxy_results' = <<>>
    /\ table_needs_rebuild' = FALSE
    /\ is_paused' = FALSE
    /\ pause_event' = TRUE
    /\ slipstream_semaphore' = slipstream_max_concurrent
    /\ available_ports' = port_pool
    /\ slipstream_tasks' = {}
    /\ tbl' = start_clock(tbl)
    /\ UNCHANGED <<formVars, otherUnits, streamVars, scan_started, table, vtasks,
                   active_tasks, sem, tasks, report, auto_saved>>

\* _scan_async, lines 909-944: the line count, the zero check and the probe
\* semaphore (asyncio.Semaphore raises ValueError for a negative value).
ScanCount ==
    /\ sched_pc = "count"
    /\ IF count_file_lines(subnet_file, readable) = 0
       THEN /\ report' = "no_subnets"
            /\ sched_pc' = "returned"
            /\ sem' = sem
       ELSE IF concurrency < 0
       THEN /\ report' = "crashed"
            /\ sched_pc' = "crashed"
            /\ sem' = sem
       ELSE /\ report' = report
            /\ sched_pc' = "fetch"
            /\ sem' = concurrency
    /\ UNCHANGED <<formVars, unitVars, streamVars, gateVars, resultVars, poolVars,
                   active_tasks, tasks, auto_saved>>

\* A filter that lets every discovered address through.
servers_to_saveMutAll(R, slip) == R.server_times

\* Lines 1495-1514 and 1545-1558: the entries of server_times whose status
\* is Success when validation is enabled, all of them otherwise.
servers_to_save(R, slip) ==
    LET passed(e) == proxy_status(R.proxy_results, e.ip) = "Success"
    IN  IF slip THEN SelectSeq(R.server_times, passed) ELSE R.server_times

\* Lines 1501 and 1511, 1550 and 1555: nothing to save.
nothing_to_save(R, slip) ==
    IF slip THEN servers_to_save(R, slip) = <<>> ELSE R.found_servers = {}

\* The addresses of the entries, sorted by response time.
sorted_servers(st) ==
    LET s == sorted_by_time(st) IN [i \in 1..Len(s) |-> s[i].ip]

\* _auto_save_results: nothing to save is logged and nothing written, or
\* the text file is written, one address per line in ascending latency.
auto_save(R, slip) ==
    IF nothing_to_save(R, slip)
    THEN [NoSave EXCEPT !.state = "nothing"]
    ELSE [NoSave EXCEPT !.state = "written", !.files = {"txt"},
                        !.ips = sorted_servers(servers_to_save(R, slip))]

\* action_save_results: nothing to save is notified and nothing written,
\* or the JSON file (its "servers" list) and the text file are written.
save_results(R, slip) ==
    IF nothing_to_save(R, slip)
    THEN [NoSave EXCEPT !.state = "nothing"]
    ELSE [NoSave EXCEPT !.state = "written", !.files = {"json", "txt"},
                        !.ips = sorted_servers(servers_to_save(R, slip)),
                        !.servers = sorted_servers(servers_to_save(R, slip))]

\* _scan_async, lines 992-1008, after the last result is processed: the final
\* rebuild, then either the wait for the validations or the auto-save.
ScanComplete(R, t) ==
    \E R1 \in {rebuild_table(R)} :
        /\ SetResults(R1)
        /\ tbl' = end_rebuild(t, R, R1)
        /\ IF test_slipstream /\ R1.slipstream_tasks # {}
           THEN /\ sched_pc' = "gather"
                /\ UNCHANGED <<report, auto_saved>>
           ELSE /\ sched_pc' = "done"
                /\ auto_saved' = auto_save(R1, test_slipstream)
                /\ report' = "complete"

\* async for ip_chunk in self._stream_ips_from_file(): the next chunk, or
\* the end of the loop (lines 981-984).
SchedFetch ==
    /\ sched_pc = "fetch"
    /\ \E sd \in Seeds : \E g \in {stream_next(gen, subnet_file, readable, sd)} :
           /\ gen' = g
           /\ ip_chunk' = IF g.pc = "done" THEN ip_chunk ELSE g.chunk
           /\ emitted' = IF g.pc = "done" THEN emitted ELSE emitted \o g.chunk
           /\ IF g.pc # "done"
              THEN /\ sched_pc' = "gate1"
                   /\ UNCHANGED <<resultVars, report, auto_saved, tbl>>
              ELSE IF active_tasks # {}
              THEN /\ sched_pc' = "drain"
                   /\ UNCHANGED <<resultVars, report, auto_saved, tbl>>
              ELSE ScanComplete(Results, tbl)
    /\ UNCHANGED <<formVars, otherUnits, gateVars, poolVars, active_tasks, sem, tasks>>

NewTask(ip) == [ip |-> ip, pc |-> "gate", live |-> FALSE, rt |-> 0]

\* await self.pause_event.wait(): the coroutine at the gate goes on when
\* the event is set as it calls wait(), or when set() has released it.
gate_open(pc, at, woken) == pc = woken \/ (pc = at /\ pause_event)

\* Lines 952-962: past the gate, one task per address of the chunk.
SchedAdmit ==
    /\ gate_open(sched_pc, "gate1", "woken1")
    /\ tasks' = tasks \o [i \in 1..Len(ip_chunk) |-> NewTask(ip_chunk[i])]
    /\ active_tasks' = active_tasks \cup ((Len(tasks) + 1)..(Len(tasks) + Len(ip_chunk)))
    /\ sched_pc' = IF Cardinality(active_tasks') >= chunk_size THEN "gate2" ELSE "fetch"
    /\ UNCHANGED <<formVars, unitVars, streamVars, gateVars, resultVars, poolVars,
                   sem, report, auto_saved>>

\* Line 964: the gate before the batch is processed.
SchedGate ==
    /\ gate_open(sched_pc, "gate2", "woken2")
    /\ sched_pc' = "wait"
    /\ UNCHANGED <<formVars, unitVars, streamVars, gateVars, resultVars, poolVars,
                   active_tasks, sem, tasks, report, auto_saved>>

\* A loop over the done tasks that skips one of them.
OrdersMutSkipOne(S) ==
    {o \in [1..(Cardinality(S) - 1) -> S] : \A i, j \in DOMAIN o : i # j => o[i] # o[j]}

\* The orders in which "for task in done" can visit the set of done tasks.
Orders(S) ==
    {o \in [1..Cardinality(S) -> S] : \A i, j \in DOMAIN o : i # j => o[i] # o[j]}

\* "for task in done: await self._process_result(result)", in the order o.
RECURSIVE process_all(_, _, _, _, _)
process_all(R, o, T, slip, due) ==
    IF o = <<>> THEN R
    ELSE CHOOSE r \in
            {process_all(R1, Tail(o), T, slip, due) :
                R1 \in {process_result(R, Head(o), T[Head(o)], slip, Head(o) \in due)}} :
            TRUE

\* "for task in done: await self._process_result(result)" in the order o
\* under the clock: before the call for task h the time has moved on by
\* ticks[h]; line 1296 is true when two seconds have passed since
\* last_table_update_time, and line 1298 then sets it.  P holds the result
\* fields (R) and the clock (t).
RECURSIVE clock_all(_, _, _, _, _)
clock_all(P, o, T, slip, ticks) ==
    IF o = <<>> THEN P
    ELSE LET h == Head(o)
             t1 == [P.t EXCEPT !.now = @ + ticks[h]]
             due == t1.now - t1.last_table_update_time >= RebuildInterval
             \* the result fields when _add_result returns to line 1133
             A == add_result([P.R EXCEPT !.current_scanned = @ + 1],
                             T[h].ip, T[h].rt, due)
             t2 == IF T[h].live /\ due
                   THEN [rebuild_ran(t1, A) EXCEPT !.last_table_update_time = t1.now]
                   ELSE t1
         IN  clock_all([R |-> process_result(P.R, h, T[h], slip, due), t |-> t2],
                       Tail(o), T, slip, ticks)

\* What the loop over the done tasks S can leave: without the clock each
\* test of line 1296 goes either way, with it the time decides.
loop_results(R, t, S, T, slip) ==
    IF t.pc = "none"
    THEN {[R |-> process_all(R, o, T, slip, due), t |-> t] :
             o \in Orders(S), due \in SUBSET S}
    ELSE {P \in {clock_all([R |-> R, t |-> t], o, T, slip, ticks) :
                    o \in Orders(S), ticks \in [S -> 0..1]} :
             P.t.now <= MaxTime}

DoneTasks == {t \in active_tasks : tasks[t].pc = "done"}

\* Lines 968-979: asyncio.wait(FIRST_COMPLETED) returns the tasks that are
\* done, and each result is processed.
SchedBatch ==
    /\ sched_pc = "wait"
    /\ DoneTasks # {}
    /\ \E P \in loop_results(Results, tbl, DoneTasks, tasks, test_slipstream) :
          /\ SetResults(P.R)
          /\ tbl' = P.t
    /\ active_tasks' = active_tasks \ DoneTasks
    /\ sched_pc' = "fetch"
    /\ UNCHANGED <<formVars, otherUnits, streamVars, gateVars, poolVars, sem, tasks,
                   report, auto_saved>>

\* Lines 984-1008: asyncio.wait of all remaining tasks, their results, and
\* the end of the scan.
SchedDrain ==
    /\ sched_pc = "drain"
    /\ DoneTasks = active_tasks
    /\ \E P \in loop_results(Results, tbl, DoneTasks, tasks, test_slipstream) :
          ScanComplete(P.R, P.t)
    /\ active_tasks' = {}
    /\ UNCHANGED <<formVars, otherUnits, streamVars, gateVars, poolVars, sem, tasks>>

\* A gather that waits for no task.
gather_pendingMutNone(V, S) == {}

\* Line 1002, asyncio.gather(*self.slipstream_tasks): the tasks it still
\* waits for.  gather hears of the end of a task through a done-callback
\* of the task, which the loop runs after the one that line 1140 added:
\* a task that has ended is still waited for until it is discarded.
gather_pending(V, S) == {v \in DOMAIN V : V[v].pc # "done" \/ v \in S}

\* Lines 1002-1008: every validation task has ended.
SchedGather ==
    /\ sched_pc = "gather"
    /\ gather_pending(vtasks, slipstream_tasks) = {}
    /\ \E R1 \in {rebuild_table(Results)} :
           /\ SetResults(R1)
           /\ tbl' = end_rebuild(tbl, Results, R1)
           /\ auto_saved' = auto_save(R1, test_slipstream)
    /\ report' = "complete"
    /\ sched_pc' = "done"
    /\ UNCHANGED <<formVars, otherUnits, streamVars, gateVars, poolVars, active_tasks,
                   sem, tasks>>

\* _test_dns_with_callback.  The first step of the task calls wait() at
\* line 1119: with the event clear the task is suspended there; otherwise,
\* and when set() has released it, "async with sem" follows.
ProbeStart(t) ==
    /\ tasks[t].pc \in {"gate", "woken"}
    /\ IF ~gate_open(tasks[t].pc, "gate", "woken")
       THEN /\ sem' = sem
            /\ tasks' = [tasks EXCEPT ![t].pc = "paused"]
       ELSE IF ProbeSlotFree(sem)
       THEN /\ sem' = sem - 1
            /\ tasks' = [tasks EXCEPT ![t].pc = "query"]
       ELSE /\ sem' = sem
            /\ tasks' = [tasks EXCEPT ![t].pc = "sem"]
    /\ UNCHANGED <<formVars, unitVars, streamVars, gateVars, resultVars, poolVars,
                   sched_pc, active_tasks, report, auto_saved>>

\* A task waiting for the semaphore gets a slot.
ProbeAcquire(t) ==
    /\ tasks[t].pc = "sem"
    /\ ProbeSlotFree(sem)
    /\ sem' = sem - 1
    /\ tasks' = [tasks EXCEPT ![t].pc = "query"]
    /\ UNCHANGED <<formVars, unitVars, streamVars, gateVars, resultVars, poolVars,
                   sched_pc, active_tasks, report, auto_saved>>

\* The query ends; _test_dns returns its tuple and leaves the semaphore.
ProbeFinish(t) ==
    /\ tasks[t].pc = "query"
    /\ \E o \in ScanOutcomes :
          LET res == test_dns(tasks[t].ip, o)
          IN  tasks' = [tasks EXCEPT ![t].pc = "done", ![t].live = res.live,
                                     ![t].rt = res.rt]
    /\ sem' = sem + 1
    /\ UNCHANGED <<formVars, unitVars, streamVars, gateVars, resultVars, poolVars,
                   sched_pc, active_tasks, report, auto_saved>>

\* _queue_slipstream_test, lines 1347-1357: the slot, then one look at the
\* pool; with a port, the status becomes Testing and the test starts.
ValidationStart(v) ==
    /\ vtasks[v].pc \in {"sem", "port"}
    /\ vtasks[v].pc = "sem" => ValidationSlotFree(slipstream_semaphore)
    /\ slipstream_semaphore' =
          IF vtasks[v].pc = "sem" THEN slipstream_semaphore - 1
          ELSE slipstream_semaphore
    /\ IF available_ports = <<>>
       THEN /\ vtasks' = [vtasks EXCEPT ![v].pc = "port"]
            /\ UNCHANGED <<available_ports, proxy_results, table, table_needs_rebuild,
                           tbl>>
       ELSE \E R0 \in {[Results EXCEPT !.proxy_results =
                                            set_status(@, tasks[v].ip, "Testing")]} :
            \E R \in {update_table_row(R0)} :
                /\ vtasks' = [vtasks EXCEPT ![v].pc = "testing",
                                            ![v].port = Head(available_ports)]
                /\ available_ports' = take_port(available_ports)
                /\ proxy_results' = R.proxy_results
                /\ table' = R.table
                /\ table_needs_rebuild' = R.table_needs_rebuild
                /\ tbl' = rebuild_ran(tbl, R)
    /\ UNCHANGED <<formVars, otherUnits, streamVars, gateVars, schedVars, current_scanned,
                   found_servers, server_times, slipstream_tasks>>

\* Lines 1360-1371, without a suspension point: the status is recorded, the
\* row is updated, the port goes back to the pool and the slot is left.
\* The task has ended; it stays in slipstream_tasks until the loop runs its
\* done-callback.
ValidationEnd(v, result) ==
    /\ \E R0 \in {[Results EXCEPT !.proxy_results =
                                       set_status(@, tasks[v].ip, result)]} :
       \E R \in {update_table_row(R0)} :
          /\ proxy_results' = R.proxy_results
          /\ table' = R.table
          /\ table_needs_rebuild' = R.table_needs_rebuild
          /\ tbl' = rebuild_ran(tbl, R)
    /\ available_ports' = return_port(available_ports, vtasks[v].port)
    /\ slipstream_semaphore' = release_slot(slipstream_semaphore)
    /\ vtasks' = [vtasks EXCEPT ![v].pc = "done", ![v].port = 0]
    /\ UNCHANGED <<formVars, probe, dl, saved, ptest, streamVars, gateVars, schedVars, current_scanned,
                   found_servers, server_times, slipstream_tasks>>

\* Line 1140, task.add_done_callback(self.slipstream_tasks.discard): the
\* loop runs the callback of a task that has ended or was cancelled.
ValidationDiscard(v) ==
    /\ vtasks[v].pc \in {"done", "cancelled"}
    /\ v \in slipstream_tasks
    /\ slipstream_tasks' = slipstream_tasks \ {v}
    /\ UNCHANGED <<formVars, unitVars, streamVars, gateVars, schedVars, poolVars,
                   current_scanned, found_servers, server_times, proxy_results,
                   table, table_needs_rebuild, vtasks>>

\* Lines 1359-1371 as one step of the scan: _test_slipstream_proxy runs from
\* its launch to its return (its subprocess is local to it), then the final
\* segment.
ValidationFinish(v) ==
    /\ vtasks[v].pc = "testing"
    /\ \E env \in ScanProxyEnvs : ValidationEnd(v, test_slipstream_proxy(env))
    /\ UNCHANGED processes

\* _test_slipstream_proxy step by step.  Lines 1391-1399: the launch.  When
\* create_subprocess_exec raises, "Failed" is returned at once (process is
\* None) and the final segment follows without a suspension point.
SlipstreamLaunch(v) ==
    /\ vtasks[v].pc = "testing"
    /\ \/ /\ processes' = [x \in (DOMAIN processes) \cup {v} |->
                              IF x = v THEN Process("running", ProxyEnv("ok", "none", 0, 0))
                              ELSE processes[x]]
          /\ vtasks' = [vtasks EXCEPT ![v].pc = "running"]
          /\ UNCHANGED <<formVars, streamVars, gateVars, schedVars, poolVars,
                         current_scanned, found_servers, server_times, proxy_results,
                         table, table_needs_rebuild, slipstream_tasks, probe, dl, saved, tbl, ptest>>
       \/ \E env \in {ProxyEnv("fail", "none", 0, 0)} :
             /\ processes' = [x \in (DOMAIN processes) \cup {v} |->
                                 IF x = v THEN Process("none", env) ELSE processes[x]]
             /\ ValidationEnd(v, test_slipstream_proxy(env))

\* What a launched tunnel client and the proxy requests can do: the marker
\* and a good HTTP response, the marker and two failed requests, a
\* readiness timeout, standard output closed without the marker.
LaunchedEnvs ==
    { ProxyEnv("ok", "marker", 200, 0), ProxyEnv("ok", "marker", 0, 0),
      ProxyEnv("ok", "timeout", 0, 0), ProxyEnv("ok", "eof", 0, 0) }

\* Lines 1401-1463: the readiness wait and the proxy requests give the
\* result; the finally block kills the process and waits for it.  A process
\* that has already exited and been collected makes kill() raise
\* ProcessLookupError, which is swallowed: the final segment follows at once.
SlipstreamTest(v) ==
    /\ vtasks[v].pc = "running"
    /\ \E env \in LaunchedEnvs :
          \/ /\ processes' = [processes EXCEPT ![v] = kill_process(Process("running", env))]
             /\ vtasks' = [vtasks EXCEPT ![v].pc = "killing"]
             /\ UNCHANGED <<formVars, streamVars, gateVars, schedVars, poolVars,
                            current_scanned, found_servers, server_times, proxy_results,
                            table, table_needs_rebuild, slipstream_tasks, probe, dl, saved, tbl, ptest>>
          \/ /\ env.ready = "eof"
             /\ processes' = [processes EXCEPT ![v] = Process("reaped", env)]
             /\ ValidationEnd(v, test_slipstream_proxy(env))

\* Line 1463: process.wait() returns; _test_slipstream_proxy returns its
\* result and the final segment follows.
SlipstreamReaped(v) ==
    /\ vtasks[v].pc = "killing"
    /\ processes' = [processes EXCEPT ![v] = wait_process(processes[v])]
    /\ ValidationEnd(v, test_slipstream_proxy(processes[v].met))

Next ==
    \/ PauseScan
    \/ ResumeScan
    \/ ScanReset
    \/ ScanCount
    \/ SchedFetch
    \/ SchedAdmit
    \/ SchedGate
    \/ SchedBatch
    \/ SchedDrain
    \/ SchedGather
    \/ \E t \in DOMAIN tasks : ProbeStart(t) \/ ProbeAcquire(t) \/ ProbeFinish(t)
    \/ \E v \in DOMAIN vtasks :
          ValidationStart(v) \/ ValidationFinish(v) \/ ValidationDiscard(v)

Spec == Init /\ [][Next]_vars

(***************************************************************************)
(* The fair scan specification: a scan without validation, in which the    *)
(* event loop runs every coroutine that is ready and every DNS query ends  *)
(* (with an answer, an error or its 2 s timeout).  The user is free to     *)
(* pause, to resume or to do neither.                                      *)
(***************************************************************************)
LiveInit == Init /\ ~test_slipstream

\* The steps of the coroutines.
ScanStep ==
    \/ ScanReset
    \/ ScanCount
    \/ SchedFetch
    \/ SchedAdmit
    \/ SchedGate
    \/ SchedBatch
    \/ SchedDrain
    \/ \E t \in DOMAIN tasks : ProbeStart(t) \/ ProbeAcquire(t) \/ ProbeFinish(t)

LiveNext == PauseScan \/ ResumeScan \/ ScanStep

SpecLive == LiveInit /\ [][LiveNext]_vars /\ WF_vars(ScanStep)

(***************************************************************************)
(* The validation specification: the validation subsystem from the moment  *)
(* the scan loop has ended on a file of NumCandidates single addresses,    *)
(* all live, their results processed by one pass of lines 984-990: every   *)
(* candidate is Pending and _scan_async waits in asyncio.gather.           *)
(***************************************************************************)
CandidateFile == [i \in 1..NumCandidates |-> Cidr(IP(10, 0, 3, i), 32)]

\* The state in which _scan_async reaches asyncio.gather on the file f:
\* the chunk is the shuffle of the file for the draw sd, and the results
\* were processed in the order o, the order in which "for task in done"
\* visited the set of done tasks (line 986).
ValidationStartsWith(f, sd, o) ==
    /\ subnet_file = f
    /\ readable = TRUE
    /\ concurrency = Len(f)
    /\ test_slipstream = TRUE
    /\ \E g \in {stream_next(NewGen, f, TRUE, sd)} :
       \E T \in {[i \in 1..Len(g.chunk) |->
                    [ip |-> g.chunk[i], pc |-> "done", live |-> TRUE, rt |-> 100]]} :
           /\ gen = stream_next(g, f, TRUE, 0)
           /\ ip_chunk = g.chunk
           /\ emitted = g.chunk
           /\ tasks = T
           /\ InitResults(rebuild_table(process_all(FreshResults, o, T, TRUE, {})))
    /\ sched_pc = "gather"
    /\ active_tasks = {}
    /\ sem = concurrency
    /\ report = "none"
    /\ auto_saved = NoSave
    /\ scan_started = TRUE
    /\ is_paused = FALSE
    /\ pause_event = TRUE
    /\ slipstream_semaphore = slipstream_max_concurrent
    /\ available_ports = port_pool
    /\ IdleUnits

\* Every shuffle of the file (line 1085) with every order of the done
\* tasks (line 986).
ValidationInit ==
    \E sd \in Seeds, k \in Seeds :
        ValidationStartsWith(CandidateFile, sd,
                             shuffle([i \in 1..NumCandidates |-> i], k))

\* The pause gate is left out: no line of the validation reads it.
ValidationNext ==
    \/ SchedGather
    \/ \E v \in DOMAIN vtasks :
          \/ ValidationStart(v)
          \/ SlipstreamLaunch(v)
          \/ SlipstreamTest(v)
          \/ SlipstreamReaped(v)
          \/ ValidationDiscard(v)

SpecValidation == ValidationInit /\ [][ValidationNext]_vars

(***************************************************************************)
(* The shutdown specification: a scan with validation and the exit of the  *)
(* application, from the start of _scan_async and from the moment it waits *)
(* in asyncio.gather.  The scan runs as a worker of the application (line  *)
(* 837) and the application under asyncio.run (line 1608).  The exit       *)
(* cancels the worker where it is: in asyncio.gather (line 1002), gather   *)
(* calls cancel() on every validation task that has not ended; anywhere    *)
(* else the tasks go on.  When the event loop closes, cancel() is called   *)
(* on every task that is left, also on one that was cancelled before and   *)
(* has not ended.  The next step of a task on which cancel() was called is *)
(* a CancelledError raised at its await, in a callback of its own.         *)
(***************************************************************************)
\* cancel() on every task of S that has not ended.
cancel_tasks(V, S) ==
    [v \in DOMAIN V |->
        IF v \in S /\ V[v].pc \notin {"done", "cancelled"}
        THEN [V[v] EXCEPT !.must_cancel = TRUE] ELSE V[v]]

\* on_button_pressed, lines 720-729: self.exit(), at any moment.  sched_pc
\* becomes "exit" when the worker was in asyncio.gather, "unwound" when it
\* was anywhere else.
AppExit ==
    /\ sched_pc \notin {"exit", "unwound", "closed"}
    /\ sched_pc' = IF sched_pc = "gather" THEN "exit" ELSE "unwound"
    /\ vtasks' = IF sched_pc = "gather" THEN cancel_tasks(vtasks, DOMAIN vtasks)
                 ELSE vtasks
    /\ UNCHANGED <<formVars, unitVars, streamVars, gateVars, poolVars,
                   current_scanned, found_servers, server_times, proxy_results,
                   table, table_needs_rebuild, slipstream_tasks,
                   active_tasks, sem, tasks, report, auto_saved>>

\* The event loop closes after the exit: asyncio.run calls cancel() on every
\* task that is left.  From then on every probe task that has not ended has
\* a CancelledError to come (sched_pc = "closed").
LoopClose ==
    /\ sched_pc \in {"exit", "unwound"}
    /\ sched_pc' = "closed"
    /\ vtasks' = cancel_tasks(vtasks, DOMAIN vtasks)
    /\ UNCHANGED <<formVars, unitVars, streamVars, gateVars, poolVars,
                   current_scanned, found_servers, server_times, proxy_results,
                   table, table_needs_rebuild, slipstream_tasks,
                   active_tasks, sem, tasks, report, auto_saved>>

\* CancelledError in a probe task, at line 1119, at 'async with sem' or in
\* the query: the task ends cancelled, a slot that was taken is left.
ProbeCancel(t) ==
    /\ sched_pc = "closed"
    /\ tasks[t].pc \in {"gate", "paused", "woken", "sem", "query"}
    /\ tasks' = [tasks EXCEPT ![t].pc = "cancelled"]
    /\ sem' = IF tasks[t].pc = "query" THEN sem + 1 ELSE sem
    /\ UNCHANGED <<formVars, unitVars, streamVars, gateVars, resultVars, poolVars,
                   sched_pc, active_tasks, report, auto_saved>>

\* The way out of _queue_slipstream_test for a CancelledError, lines
\* 1369-1371 and the end of 'async with': a port that was taken goes back
\* to the pool, a slot that was taken is left, the status is not written.
ValidationUnwind(v) ==
    /\ available_ports' =
          IF vtasks[v].port = 0 THEN available_ports
          ELSE return_port(available_ports, vtasks[v].port)
    /\ slipstream_semaphore' =
          IF vtasks[v].pc = "sem" THEN slipstream_semaphore
          ELSE slipstream_semaphore + 1
    /\ vtasks' = [vtasks EXCEPT ![v].pc = "cancelled", ![v].port = 0,
                                ![v].must_cancel = FALSE]
    /\ UNCHANGED <<formVars, probe, dl, saved, tbl, ptest, streamVars, gateVars, schedVars,
                   current_scanned, found_servers, server_times, proxy_results,
                   table, table_needs_rebuild, slipstream_tasks>>

\* CancelledError at the await of the task.  Waiting for the slot (line
\* 1347), for a port (line 1350) or for the launch (line 1391, process is
\* None): the task unwinds.  During the readiness wait or a proxy request
\* (lines 1403-1450): the finally block kills the process and suspends in
\* process.wait().  In process.wait() itself (line 1463), reached by the
\* end of the test or by an earlier cancellation: CancelledError is not an
\* Exception, 'except Exception: pass' (line 1464) lets it through and the
\* task unwinds with the exit status not collected.
ValidationCancel(v) ==
    /\ vtasks[v].must_cancel
    /\ vtasks[v].pc \in {"sem", "port", "testing", "running", "killing", "unwinding"}
    /\ IF vtasks[v].pc = "running"
       THEN /\ processes' = [processes EXCEPT ![v] = kill_process(processes[v])]
            /\ vtasks' = [vtasks EXCEPT ![v].pc = "unwinding",
                                        ![v].must_cancel = FALSE]
            /\ UNCHANGED <<formVars, streamVars, gateVars, schedVars, poolVars,
                           current_scanned, found_servers, server_times, proxy_results,
                           table, table_needs_rebuild, slipstream_tasks, probe, dl, saved, tbl, ptest>>
       ELSE /\ ValidationUnwind(v)
            /\ UNCHANGED processes

\* Line 1463 after a cancellation during the test: process.wait() returns
\* and the CancelledError goes on through the finally blocks.
UnwindReaped(v) ==
    /\ vtasks[v].pc = "unwinding"
    /\ ~vtasks[v].must_cancel
    /\ processes' = [processes EXCEPT ![v] = wait_process(processes[v])]
    /\ ValidationUnwind(v)

\* _scan_async has reset the results and created the slots and the ports
\* (lines 882-907) and goes on to count the lines of the file f, with the
\* probe concurrency c.
ScanStartsWith(f, c) ==
    /\ subnet_file = f
    /\ readable = TRUE
    /\ concurrency = c
    /\ test_slipstream = TRUE
    /\ gen = NewGen
    /\ ip_chunk = <<>>
    /\ emitted = <<>>
    /\ sched_pc = "count"
    /\ active_tasks = {}
    /\ sem = 0
    /\ tasks = <<>>
    /\ report = "none"
    /\ auto_saved = NoSave
    /\ scan_started = TRUE
    /\ is_paused = FALSE
    /\ pause_event = TRUE
    /\ EmptyResults
    /\ slipstream_semaphore = slipstream_max_concurrent
    /\ available_ports = port_pool
    /\ IdleUnits

\* The scan at gather, and a scan of two addresses, one probe at a time,
\* from its start.
ShutdownInit ==
    \/ ValidationInit
    \/ ScanStartsWith(<<Cidr(A1, 32), Cidr(IP(10, 0, 0, 2), 32)>>, 1)

\* The steps of the worker and of the tasks (the pause gate stays open) as
\* long as cancel() was not called on them, the exit, the close of the
\* loop and the steps of the cancelled tasks.
ShutdownNext ==
    \/ /\ sched_pc \notin {"exit", "closed"}
       /\ \/ ScanCount
          \/ SchedFetch
          \/ SchedAdmit
          \/ SchedGate
          \/ SchedBatch
          \/ SchedDrain
          \/ \E t \in DOMAIN tasks : ProbeStart(t) \/ ProbeAcquire(t) \/ ProbeFinish(t)
          \/ ValidationNext
    \/ AppExit
    \/ LoopClose
    \/ \E t \in DOMAIN tasks : ProbeCancel(t)
    \/ \E v \in DOMAIN vtasks :
          \/ ValidationCancel(v)
          \/ UnwindReaped(v)
          \/ sched_pc \in {"exit", "closed"} /\ ValidationDiscard(v)

SpecShutdown == ShutdownInit /\ [][ShutdownNext]_vars

(***************************************************************************)
(* The stream specification: the generator alone, drained to its end, on   *)
(* every file of up to MaxLines lines over StreamLines.                    *)
(***************************************************************************)
StreamLines ==
    { CommentLine, TextLine,
      Cidr(IP(10, 0, 0, 1), 32), Cidr(IP(10, 0, 0, 9), 32),
      Cidr(IP(10, 0, 1, 0), 31), Cidr(IP(10, 0, 2, 5), 30),
      Cidr(IP(10, 0, 4, 0), 29) }

\* The files of the stream specification.
StreamFiles == SeqsUpTo(StreamLines, MaxLines)

StreamInit ==
    /\ subnet_file \in StreamFiles
    /\ readable \in BOOLEAN
    /\ concurrency = 0
    /\ test_slipstream = FALSE
    /\ gen = NewGen
    /\ ip_chunk = <<>>
    /\ emitted = <<>>
    /\ sched_pc = "stream"
    /\ active_tasks = {}
    /\ sem = 0
    /\ tasks = <<>>
    /\ report = "none"
    /\ auto_saved = NoSave
    /\ scan_started = FALSE
    /\ is_paused = FALSE
    /\ pause_event = TRUE
    /\ EmptyResults
    /\ slipstream_semaphore = 0
    /\ available_ports = <<>>
    /\ IdleUnits

\* async for ip_chunk in self._stream_ips_from_file()
StreamPull ==
    /\ gen.pc # "done"
    /\ \E sd \in Seeds : \E g \in {stream_next(gen, subnet_file, readable, sd)} :
           /\ gen' = g
           /\ ip_chunk' = IF g.pc = "done" THEN ip_chunk ELSE g.chunk
           /\ emitted' = IF g.pc = "done" THEN emitted ELSE emitted \o g.chunk
    /\ UNCHANGED <<formVars, unitVars, gateVars, resultVars, schedVars, poolVars>>

StreamNext == StreamPull

SpecStream == StreamInit /\ [][StreamNext]_vars

(***************************************************************************)
(* Claims about the address stream (checked under SpecStream).             *)
(***************************************************************************)
\* The networks of the file, as a set of line numbers and as networks.
ValidLines ==
    IF readable
    THEN {i \in 1..Len(subnet_file) :
            IsEntry(subnet_file[i]) /\ ~ParseFails(subnet_file[i])}
    ELSE {}

RangeOf(i) == ParseNetwork(subnet_file[i])

LastAddr(net) == net.addr + num_addresses(net) - 1

\* No two lines of the file name ranges with an address in common.
NonOverlapping ==
    \A i, j \in ValidLines :
        i # j => \/ LastAddr(RangeOf(i)) < RangeOf(j).addr
                 \/ LastAddr(RangeOf(j)) < RangeOf(i).addr

\* The usable host addresses of a range: all of a /31 or /32, otherwise all
\* but the network and the broadcast address of the range.
UsableOfRange(net) ==
    IF net.prefix >= AddrBits - 1 THEN net.addr..LastAddr(net)
    ELSE (net.addr + 1)..(LastAddr(net) - 1)

\* The usable host addresses of each block of a range (of the range itself
\* when it is no larger than a block): all but the first and the last
\* address of each block.
UsableOfBlocks(net) ==
    IF net.prefix >= SubBlockPrefix THEN UsableOfRange(net)
    ELSE {a \in net.addr..LastAddr(net) :
             a % Pow2(BlockBits) \notin {0, Pow2(BlockBits) - 1}}

EmittedSet == {emitted[i] : i \in 1..Len(emitted)}

ExactlyOnce(S) == Len(emitted) = Cardinality(S) /\ EmittedSet = S

\* C7 as stated: for a file of non-overlapping ranges, the chunks together
\* hold every usable host address of every range exactly once.
C7_EveryHostOfRangeOnce ==
    (gen.pc = "done" /\ NonOverlapping)
        => ExactlyOnce(UNION {UsableOfRange(RangeOf(i)) : i \in ValidLines})

\* C7 amended: for a file of non-overlapping ranges, the chunks together hold
\* exactly once every usable host address of every block of every range (of
\* the range itself when it is no larger than a block): inside a range
\* larger than a block the first and the last address of each block are
\* left out.
C7_EveryHostOfBlockOnce ==
    (gen.pc = "done" /\ NonOverlapping)
        => ExactlyOnce(UNION {UsableOfBlocks(RangeOf(i)) : i \in ValidLines})

\* A drained stream of a non-overlapping file with a range larger than a
\* block and a single address, emitted in many chunks and not in ascending
\* order.
C7_Witness ==
    /\ gen.pc = "done"
    /\ NonOverlapping
    /\ Cardinality(ValidLines) = 2
    /\ \E i \in ValidLines : RangeOf(i).prefix < SubBlockPrefix
    /\ \E i \in ValidLines : RangeOf(i).prefix = AddrBits
    /\ Len(emitted) > 2 * chunk_size
    /\ \E i \in 1..(Len(emitted) - 1) : emitted[i] > emitted[i + 1]

\* C8 as stated: every chunk handed over has at most chunk_size addresses.
C8_ChunkBounded == Len(ip_chunk) <= chunk_size

(***************************************************************************)
(* Claims about the scan (checked under Spec) and about the validation     *)
(* subsystem (checked under SpecValidation).                               *)
(***************************************************************************)
\* The probes that hold an execution slot: inside "async with sem", the
\* query not yet returned.
InProgress == {t \in DOMAIN tasks : tasks[t].pc = "query"}

\* C1: the number of probes that hold an execution slot never exceeds the
\* configured probe concurrency (a concurrency that is a count: with a
\* negative one no semaphore and no probe task is ever created).
C1_ProbesWithinConcurrency ==
    concurrency >= 0 => Cardinality(InProgress) <= concurrency

\* Every slot is taken, a task waits for one, and more than one chunk has
\* been admitted.
C1_Witness ==
    /\ concurrency > 0
    /\ Cardinality(InProgress) = concurrency
    /\ \E t \in DOMAIN tasks : tasks[t].pc = "sem"
    /\ Len(tasks) > chunk_size

\* The validation tasks inside the slot of _queue_slipstream_test.
InSlot ==
    {v \in DOMAIN vtasks :
        vtasks[v].pc \in {"port", "testing", "running", "killing", "unwinding"}}

\* C2: the number of validation tasks inside the slot never exceeds
\* slipstream_max_concurrent, however many resolvers are Pending.
C2_ValidationsWithinCap == Cardinality(InSlot) <= slipstream_max_concurrent

\* Every validation slot is taken by a task in Testing while another
\* resolver is Pending.
C2_Witness ==
    /\ Cardinality(InSlot) = slipstream_max_concurrent
    /\ \A v \in InSlot : proxy_status(proxy_results, tasks[v].ip) = "Testing"
    /\ \E v \in DOMAIN vtasks :
          vtasks[v].pc = "sem" /\ proxy_status(proxy_results, tasks[v].ip) = "Pending"

PoolPorts == {port_pool[i] : i \in DOMAIN port_pool}

PortHolders(p) ==
    {v \in DOMAIN vtasks :
        vtasks[v].pc \in {"testing", "running", "killing"} /\ vtasks[v].port = p}

PortFree(p) == {i \in DOMAIN available_ports : available_ports[i] = p}

\* C3: once the pool is set up, each port of the pool is either once in
\* available_ports or held by exactly one running validation task, and a
\* running validation task holds a port of the pool.
C3_PortLeasesExclusive ==
    sched_pc # "reset" =>
        /\ \A p \in PoolPorts :
              Cardinality(PortFree(p)) + Cardinality(PortHolders(p)) = 1
        /\ \A i \in DOMAIN available_ports : available_ports[i] \in PoolPorts
        /\ \A v \in DOMAIN vtasks :
              vtasks[v].pc \in {"testing", "running", "killing"} =>
                 vtasks[v].port \in PoolPorts

\* Every port is leased, one of them for the second time.
C3_Witness ==
    /\ available_ports = <<>>
    /\ \A p \in PoolPorts : Cardinality(PortHolders(p)) = 1
    /\ \E v \in DOMAIN vtasks : vtasks[v].pc = "done"

StatusRank(st) ==
    CASE st = "N/A" -> 0
      [] st = "Pending" -> 1
      [] st = "Testing" -> 2
      [] OTHER -> 3

StatusForward(a, b) == a = b \/ StatusRank(a) < StatusRank(b)

\* C4 as stated: no step moves the recorded status of an address backward
\* along NotRequested -> Pending -> Testing -> {Success, Failed}.
C4_StatusOnlyForward ==
    [][\A ip \in DOMAIN proxy_results :
          StatusForward(proxy_results[ip], proxy_status(proxy_results', ip))]_vars

\* C5 as stated: at most one validation task per address, only for a live
\* result, and none at all (every status NotRequested) with validation
\* disabled.
C5_ValidatedOncePerAddress ==
    /\ \A v, w \in DOMAIN vtasks : v # w => tasks[v].ip # tasks[w].ip
    /\ \A v \in DOMAIN vtasks : tasks[v].live
    /\ ~test_slipstream => (DOMAIN vtasks = {} /\ DOMAIN proxy_results = {})

\* C6 as stated: no address has two rows in the table.
C6_TableRowsDistinct ==
    \A i, j \in DOMAIN table : i # j => table[i].ip # table[j].ip

\* A file of three lines: one /32, one /30, one malformed.
IsC9File ==
    /\ readable
    /\ Len(subnet_file) = 3
    /\ \E i, j, k \in 1..3 :
          /\ {i, j, k} = 1..3
          /\ subnet_file[i].kind = "cidr" /\ subnet_file[i].prefix = 32
          /\ subnet_file[j].kind = "cidr" /\ subnet_file[j].prefix = 30
          /\ IsEntry(subnet_file[k]) /\ ParseFails(subnet_file[k])

\* C9 as stated: the scan of such a file probes 1 + 4 = 5 addresses.
C9_FiveScanned ==
    (IsC9File /\ sched_pc = "done") => current_scanned = 5

\* C9 amended: the scan of such a file probes 1 + 2 = 3 addresses (the /30
\* gives its two usable hosts, the malformed line nothing).
C9_ThreeScanned ==
    (IsC9File /\ sched_pc = "done") =>
        /\ current_scanned = 3
        /\ Len(emitted) = 3
        /\ Len(tasks) = 3

\* The scan of such a file has run to its end.
C9_Witness == IsC9File /\ sched_pc = "done" /\ report = "complete"

\* C10 as stated: with zero valid ranges the scan reports the error and
\* stops before any probe; it never reaches the loop, the end-of-scan
\* report or the auto-save.
C10_ZeroRangesStopScan ==
    ValidLines = {} =>
        /\ sched_pc \in {"reset", "count", "returned", "crashed"}
        /\ sched_pc = "returned" => report = "no_subnets"
        /\ tasks = <<>>
        /\ auto_saved.state = "none"

(***************************************************************************)
(* The probe specification: one call of _test_dns, for every outcome of    *)
(* the DNS query.                                                          *)
(***************************************************************************)
\* A scanner on which no scan has been started.
NoScan ==
    /\ subnet_file = <<>>
    /\ readable = FALSE
    /\ concurrency = 0
    /\ test_slipstream = FALSE
    /\ gen = NewGen
    /\ ip_chunk = <<>>
    /\ emitted = <<>>
    /\ sched_pc = "none"
    /\ active_tasks = {}
    /\ sem = 0
    /\ tasks = <<>>
    /\ report = "none"
    /\ auto_saved = NoSave
    /\ scan_started = FALSE
    /\ is_paused = FALSE
    /\ pause_event = TRUE
    /\ EmptyResults
    /\ slipstream_semaphore = 0
    /\ available_ports = <<>>

\* The elapsed times of a query, in milliseconds, and the codes of a DNS
\* error (0: the error carries no code).
ProbeTimes == {0, 300, 500, 1500, 1999, 2000, 2100}
ProbeCodes == {0, 1, 3, 4, 11, 12}

\* resolver.query returns a result ("answer"), returns an empty result
\* ("empty"), raises aiodns.error.DNSError, raises asyncio.TimeoutError or
\* raises anything else.
ProbeOutcomes ==
    {Outcome(k, 0, ms) : k \in {"answer", "empty"}, ms \in ProbeTimes}
    \cup {Outcome("dnserror", c, ms) : c \in ProbeCodes, ms \in ProbeTimes}
    \cup {Outcome("timeout", 0, 2000), Outcome("exception", 0, 0)}

ProbeInit ==
    /\ NoScan
    /\ probe \in {[pc |-> "called", ip |-> ip, outcome |-> o, result |-> NoProbe.result] :
                     ip \in {A1, B30}, o \in ProbeOutcomes}
    /\ processes = <<>>
    /\ dl = NoDownload
    /\ saved = NoSave
    /\ tbl = NoTable /\ ptest = NoProxyTest

\* _test_dns returns its tuple.
ProbeCall ==
    /\ probe.pc = "called"
    /\ probe' = [probe EXCEPT !.pc = "returned",
                              !.result = test_dns(probe.ip, probe.outcome)]
    /\ UNCHANGED <<scanVars, processes, dl, saved, tbl, ptest>>

ProbeNext == ProbeCall

SpecProbe == ProbeInit /\ [][ProbeNext]_vars

(***************************************************************************)
(* Claims about the classification of a probe (checked under SpecProbe).   *)
(***************************************************************************)
\* C11 as stated: a query that returns, with an answer or with an empty one,
\* is classified live with the measured latency exactly when it took less
\* than 2 seconds, and not live with latency 0 otherwise.
C11_AnswerLiveIffFast ==
    (probe.pc = "returned" /\ probe.outcome.kind \in {"answer", "empty"}) =>
        IF probe.outcome.elapsed < 2000
        THEN probe.result.live /\ probe.result.rt = probe.outcome.elapsed
        ELSE ~probe.result.live /\ probe.result.rt = 0

\* C12: a probe that ends in an error is classified live exactly when the
\* error is a DNS error of code 1, 3 or 4 that arrived in less than 2
\* seconds; every other error and every timeout is not live with latency 0.
C12_ErrorLiveIffWorkingAndFast ==
    (probe.pc = "returned" /\ probe.outcome.kind \in {"dnserror", "timeout", "exception"}) =>
        /\ probe.result.live <=>
              /\ probe.outcome.kind = "dnserror"
              /\ probe.outcome.code \in {1, 3, 4}
              /\ probe.outcome.elapsed < 2000
        /\ ~probe.result.live => probe.result.rt = 0
        /\ probe.result.ip = probe.ip

\* A "no data" error after 1999 ms has been classified live.
C12_Witness ==
    /\ probe.pc = "returned"
    /\ probe.outcome = Outcome("dnserror", 3, 1999)
    /\ probe.result.live

(***************************************************************************)
(* Claims about the delivery of results and about the pause gate (checked  *)
(* under Spec).                                                            *)
(***************************************************************************)
\* The probe tasks whose result has been handed to _process_result.
Processed == DOMAIN tasks \ active_tasks

\* C13: there is one probe task per emitted address, in the order of
\* emission; the scanned count is the number of tasks whose result has been
\* processed, each once; no probe outcome stops the scan; and when the scan
\* has completed every emitted address has been counted.
C13_OneResultPerAddress ==
    /\ Len(tasks) <= Len(emitted)
    /\ \A t \in DOMAIN tasks : tasks[t].ip = emitted[t]
    /\ active_tasks \subseteq DOMAIN tasks
    /\ \A t \in Processed : tasks[t].pc = "done"
    /\ current_scanned = Cardinality(Processed)
    /\ sched_pc = "crashed" => tasks = <<>>
    /\ sched_pc \in {"gather", "done"} =>
          /\ Len(tasks) = Len(emitted)
          /\ active_tasks = {}
          /\ current_scanned = Len(emitted)

\* A scan of more than one chunk has completed with live and not-live
\* results.
C13_Witness ==
    /\ sched_pc = "done"
    /\ Len(emitted) > chunk_size
    /\ \E t \in DOMAIN tasks : tasks[t].live
    /\ \E t \in DOMAIN tasks : ~tasks[t].live

\* C14 as stated: while the pause gate is closed no probe sends its query.
C14_NoProbeIssuedWhilePaused ==
    [][~pause_event =>
          \A t \in DOMAIN tasks : tasks'[t].pc = "query" => tasks[t].pc = "query"]_vars

\* C15 as stated: while the pause gate is closed no result is handed to
\* _process_result: the scanned count, the discovered set and the
\* validation tasks do not change.
C15_NoResultHandedOverWhilePaused ==
    [][~pause_event =>
          /\ current_scanned' = current_scanned
          /\ found_servers' = found_servers
          /\ DOMAIN vtasks' = DOMAIN vtasks]_vars

\* The scan has ended and every emitted address has had its result.
ScanEnded ==
    /\ sched_pc \in {"done", "returned"}
    /\ gen.pc = "done" \/ sched_pc = "returned"
    /\ active_tasks = {}
    /\ current_scanned = Len(emitted)

\* C16 (checked under SpecLive): with a probe concurrency of at least 1, if
\* from some moment on the pause gate stays open, then whatever pauses and
\* resumes came before, the scheduler and every probe task go on and the
\* scan ends with a result for every address.
C16_ResumeReleasesAll ==
    (concurrency > 0) => ((<>[]pause_event) => <>ScanEnded)

\* The gate is closed and holds the scheduler and a probe task.
C16_Witness ==
    /\ ~pause_event
    /\ sched_pc \in {"gate1", "gate2"}
    /\ \E t \in DOMAIN tasks : tasks[t].pc = "paused"

(***************************************************************************)
(* Claims about the end of a validation (checked under SpecValidation).    *)
(***************************************************************************)
\* The failure kinds: the launch fails, the readiness wait times out,
\* standard output closes without the marker, both proxy requests fail.
FailureKinds ==
    { ProxyEnv("fail", "none", 0, 0), ProxyEnv("ok", "timeout", 0, 0),
      ProxyEnv("ok", "eof", 0, 0), ProxyEnv("ok", "marker", 0, 0) }

AllValidationsEnded == \A v \in DOMAIN vtasks : vtasks[v].pc = "done"

\* C17: a validation that met a failure kind has ended with the status
\* Failed and holds no port; the free slots are the cap minus the tasks
\* inside the slot; once every validation has ended every port is in the
\* pool and every slot is free; and the step that ends a validation returns
\* its port and its slot and changes no other candidate's task or status.
C17_FailureIsolated ==
    /\ [](/\ \A v \in DOMAIN processes :
                (vtasks[v].pc = "done" /\ processes[v].met \in FailureKinds) =>
                    /\ proxy_status(proxy_results, tasks[v].ip) = "Failed"
                    /\ vtasks[v].port = 0
          /\ slipstream_semaphore = slipstream_max_concurrent - Cardinality(InSlot)
          /\ AllValidationsEnded =>
                /\ slipstream_semaphore = slipstream_max_concurrent
                /\ Len(available_ports) = slipstream_max_concurrent
                /\ {available_ports[i] : i \in DOMAIN available_ports} = PoolPorts)
    /\ [][\A v \in DOMAIN vtasks :
             (vtasks[v].pc # "done" /\ vtasks'[v].pc = "done") =>
                /\ available_ports' = Append(available_ports, vtasks[v].port)
                /\ slipstream_semaphore' = slipstream_semaphore + 1
                /\ \A w \in (DOMAIN vtasks) \ {v} :
                      /\ vtasks'[w] = vtasks[w]
                      /\ proxy_status(proxy_results', tasks[w].ip)
                            = proxy_status(proxy_results, tasks[w].ip)]_vars

\* Every validation has ended, each of them on a failure kind of its own.
C17_Witness ==
    /\ AllValidationsEnded
    /\ \A v \in DOMAIN processes : processes[v].met \in FailureKinds
    /\ \A v, w \in DOMAIN processes : v # w => processes[v].met # processes[w].met

\* C18: as long as the subprocess of a validation is running, or killed but
\* not yet waited for, the validation keeps its port (which is not in the
\* pool) and its slot; a validation that has ended, by a result or by a
\* cancellation, has no subprocess left.
C18_ReapedBeforeRelease ==
    /\ \A v \in DOMAIN processes :
          /\ processes[v].state \in {"running", "killed"} =>
                /\ v \in InSlot
                /\ vtasks[v].port \in PoolPorts
                /\ PortFree(vtasks[v].port) = {}
          /\ vtasks[v].pc \in {"done", "cancelled"} =>
                processes[v].state \in {"none", "reaped"}
    /\ slipstream_semaphore = slipstream_max_concurrent - Cardinality(InSlot)

(***************************************************************************)
(* The download specification: SlipstreamManager.download_with_ui (and     *)
(* download, which has the same control flow) against a server that holds  *)
(* a file of dl.total units.  A unit stands for one chunk of the body; the *)
(* sizes of the partial file and of the executable are counted in units.   *)
(***************************************************************************)
MaxTotal == 3
MaxInvocations == 2
DefaultMaxRetries == 5
DefaultRetryDelay == 2

\* A path at which no file exists; a request without a Range header.
NoFile == -1
NoRange == -1

\* The size of an executable left by an earlier installation.
OldExe == 1

\* Lines 291-293: downloaded = 0, or the size of the partial file.
file_size(f) == IF f = NoFile THEN 0 ELSE f

\* Lines 295-297: the Range header is sent only when downloaded > 0.
range_header(downloaded) == IF downloaded > 0 THEN downloaded ELSE NoRange

\* A write mode that keeps the old content.
open_partialMutAppend(f, mode) == file_size(f)

\* Line 326, open(temp_path, mode): "wb" truncates, "ab" keeps (or creates).
open_partial(f, mode) == IF mode = "wb" THEN 0 ELSE file_size(f)

\* A response: the status, the total of the content-range header (0: no
\* such header) and the content-length.
Response(status, cr, cl) == [status |-> status, cr |-> cr, cl |-> cl]

\* What a server holding total units answers to a request from offset rng:
\* the whole file (200), the rest of it (206, with or without a
\* content-range total), 416 for an offset at or past the end, a server
\* error, or a success status other than 200 and 206.
ServerResponses(total, rng) ==
    {Response(200, 0, total), Response(503, 0, 0), Response(204, 0, 0)}
    \cup (IF rng # NoRange /\ rng < total
          THEN {Response(206, total, total - rng), Response(206, 0, total - rng)}
          ELSE {})
    \cup (IF rng # NoRange /\ rng >= total THEN {Response(416, 0, 0)} ELSE {})

\* Lines 308-319: the total of an accepted response.
response_total(r, downloaded) ==
    IF r.status = 206
    THEN IF r.cr > 0 THEN r.cr ELSE downloaded + r.cl
    ELSE r.cl

\* The exceptions: httpx.TimeoutException, httpx.NetworkError (ConnectError
\* is one), httpx.HTTPStatusError from raise_for_status,
\* httpx.RemoteProtocolError (the peer closes the connection before the
\* response or before the end of the body) and anything else (OSError, ...).
TransportErrors == {"timeout", "network", "protocol", "unexpected"}
Retryable == {"timeout", "network", "status"}

\* Lines 372-373: temp_path.unlink() if the file exists.
unlink(f) == NoFile

\* Lines 355-374, the handlers.  A retryable error before the last attempt:
\* sleep retry_delay * attempt; at the last attempt: return False, the
\* partial file kept.  Any other exception: the partial file is unlinked
\* and False is returned.
on_error(d, kind) ==
    IF kind \in Retryable
    THEN IF d.attempt < d.max_retries
         THEN [d EXCEPT !.pc = "sleep", !.wait = d.retry_delay * d.attempt,
                        !.failures = @ + 1, !.error = kind]
         ELSE [d EXCEPT !.pc = "returned", !.result = "false", !.failures = @ + 1,
                        !.error = kind]
    ELSE [d EXCEPT !.pc = "returned", !.result = "false", !.partial = unlink(d.partial),
                   !.error = kind]

\* Line 288, the for loop: the next attempt, or 'return False' (line 376)
\* when range(1, max_retries + 1) is used up.
next_attempt(d) ==
    IF d.attempt < d.max_retries
    THEN [d EXCEPT !.pc = "attempt", !.attempt = @ + 1]
    ELSE [d EXCEPT !.pc = "returned", !.result = "false"]

\* A call of download_with_ui: the state at the head of the loop.
invoke(total, partial, exe, m, delay, inv) ==
    next_attempt([pc |-> "called", total |-> total, partial |-> partial, exe |-> exe,
                  max_retries |-> m, retry_delay |-> delay, invocation |-> inv,
                  attempt |-> 0, requests |-> 0, failures |-> 0, wait |-> 0,
                  rng |-> NoRange, status |-> 0, seen |-> {}, advertised |-> 0,
                  error |-> "none",
                  downloaded |-> 0, left |-> 0, result |-> "none"])

DownloadInit ==
    /\ NoScan
    /\ probe = NoProbe
    /\ processes = <<>>
    /\ saved = NoSave
    /\ tbl = NoTable /\ ptest = NoProxyTest
    /\ \E total \in 1..MaxTotal, partial \in {NoFile} \cup (0..MaxTotal),
          exe \in {NoFile, OldExe},
          m \in 0..DefaultMaxRetries, delay \in {1, DefaultRetryDelay} :
          dl = invoke(total, partial, exe, m, delay, 1)

\* Lines 290-326: one request.  It fails before a response, or the response
\* is accepted (206: append, 200: start afresh) and the partial file is
\* opened, or raise_for_status raises, or (a success status other than 200
\* and 206) the loop continues at once.
DlRequest ==
    /\ dl.pc = "attempt"
    /\ \E downloaded \in {file_size(dl.partial)} :
       \E d \in {[dl EXCEPT !.downloaded = downloaded, !.rng = range_header(downloaded),
                            !.requests = @ + 1, !.error = "none"]} :
          \/ \E kind \in TransportErrors : dl' = on_error(d, kind)
          \/ \E r \in ServerResponses(dl.total, d.rng) :
                \E e \in {[d EXCEPT !.status = r.status, !.seen = @ \cup {r.status}]} :
                   dl' = IF r.status \in {200, 206}
                         THEN [e EXCEPT !.advertised = response_total(r, downloaded),
                                        !.downloaded = IF r.status = 206 THEN downloaded ELSE 0,
                                        !.partial = open_partial(dl.partial,
                                                       IF r.status = 206 THEN "ab" ELSE "wb"),
                                        !.left = r.cl,
                                        !.pc = "stream"]
                         ELSE IF r.status \in 200..299
                         THEN next_attempt(e)
                         ELSE on_error(e, "status")
    /\ UNCHANGED <<scanVars, probe, processes, saved, tbl, ptest>>

\* Lines 327-329: one chunk is written.
DlChunk ==
    /\ dl.pc = "stream"
    /\ dl.left > 0
    /\ dl' = [dl EXCEPT !.partial = @ + 1, !.downloaded = @ + 1, !.left = @ - 1]
    /\ UNCHANGED <<scanVars, probe, processes, saved, tbl, ptest>>

\* Line 327: the body breaks off.
DlStreamError ==
    /\ dl.pc = "stream"
    /\ dl.left > 0
    /\ \E kind \in TransportErrors : dl' = on_error(dl, kind)
    /\ UNCHANGED <<scanVars, probe, processes, saved, tbl, ptest>>

\* Lines 347-353: temp_path.rename(exe_path); True is returned.
rename_partial(d) ==
    [d EXCEPT !.exe = d.partial, !.partial = NoFile,
              !.pc = "returned", !.result = "true"]

\* Lines 343-353: the body has ended.  An executable that exists is
\* unlinked first (lines 345-346) and the renaming is a second operation
\* on the file system; without one the partial file is renamed at once.
DlComplete ==
    /\ dl.pc = "stream"
    /\ dl.left = 0
    /\ dl' = IF dl.exe # NoFile
             THEN [dl EXCEPT !.exe = unlink(dl.exe), !.pc = "rename"]
             ELSE rename_partial(dl)
    /\ UNCHANGED <<scanVars, probe, processes, saved, tbl, ptest>>

\* Line 347 after the unlink of line 346.
DlRename ==
    /\ dl.pc = "rename"
    /\ dl' = rename_partial(dl)
    /\ UNCHANGED <<scanVars, probe, processes, saved, tbl, ptest>>

\* Lines 364-365: asyncio.sleep returns, 'continue'.
DlWake ==
    /\ dl.pc = "sleep"
    /\ dl' = next_attempt(dl)
    /\ UNCHANGED <<scanVars, probe, processes, saved, tbl, ptest>>

\* A later call after a failed one, on the files the failed one left.
DlInvoke ==
    /\ dl.pc = "returned"
    /\ dl.result = "false"
    /\ dl.invocation < MaxInvocations
    /\ dl' = invoke(dl.total, dl.partial, dl.exe, dl.max_retries, dl.retry_delay,
                    dl.invocation + 1)
    /\ UNCHANGED <<scanVars, probe, processes, saved, tbl, ptest>>

DownloadNext ==
    \/ DlRequest
    \/ DlChunk
    \/ DlStreamError
    \/ DlComplete
    \/ DlRename
    \/ DlWake
    \/ DlInvoke

SpecDownload == DownloadInit /\ [][DownloadNext]_vars

\* C19: a request made with a partial file of size S > 0 asks for the bytes
\* from offset S; accepting a 206 response leaves the partial file as it
\* is, accepting a 200 response empties it and restarts the count at zero;
\* and a download that returns True has renamed a file of exactly the
\* advertised total, which is the size of the server's file.
C19_ResumeFromPartial ==
    /\ [][(dl.pc = "attempt" /\ dl'.requests = dl.requests + 1) =>
             /\ dl.partial > 0 => dl'.rng = dl.partial
             /\ (dl'.pc = "stream" /\ dl'.status = 206) =>
                   /\ dl'.partial = dl.partial
                   /\ dl'.downloaded = dl.partial
             /\ (dl'.pc = "stream" /\ dl'.status = 200) =>
                   /\ dl'.partial = 0
                   /\ dl'.downloaded = 0]_vars
    /\ []((dl.pc = "returned" /\ dl.result = "true") =>
             /\ dl.exe = dl.advertised
             /\ dl.exe = dl.total
             /\ dl.partial = NoFile)

\* A download that started from a partial file, was resumed by a 206
\* response, broke off, was answered 200 to its next ranged request and
\* ended with True.
C19_Witness ==
    /\ dl.pc = "returned"
    /\ dl.result = "true"
    /\ dl.seen = {200, 206}
    /\ dl.status = 200
    /\ dl.rng > 0
    /\ dl.invocation = 1

\* C20: a call makes at most max_retries requests; while it waits after its
\* k-th retryable failure, k < max_retries, the wait is k * retry_delay;
\* the failure, the wait and the return after the last failure leave the
\* partial file as it is; and the first request of the next call asks for
\* the bytes from the size of that partial file.
C20_RetryBackoff ==
    /\ [](/\ dl.requests <= dl.max_retries
          /\ dl.pc = "sleep" =>
                /\ dl.failures < dl.max_retries
                /\ dl.wait = dl.failures * dl.retry_delay)
    /\ [][/\ (dl.pc = "sleep" \/ dl'.pc = "sleep") => dl'.partial = dl.partial
          /\ (dl'.pc = "returned" /\ dl'.result = "false"
                /\ dl'.failures = dl.failures + 1) => dl'.partial = dl.partial
          /\ (dl.pc = "returned" /\ dl'.invocation = dl.invocation + 1) =>
                dl'.partial = dl.partial
          /\ (dl.pc = "attempt" /\ dl.attempt = 1 /\ dl.invocation > 1
                /\ dl'.requests = 1 /\ dl.partial > 0) => dl'.rng = dl.partial]_vars

\* C21: a failure that is not a network failure and not a status error
\* ends the call at once with False, the partial file deleted, no wait and
\* no further request; and a step after which the partial file no longer
\* exists is either that one or the renaming of a completed download.
C21_PartialDeletedOnlyOnUnexpected ==
    [][/\ (dl.pc \in {"attempt", "stream"} /\ dl'.pc = "returned"
             /\ dl'.error = "unexpected") =>
             /\ dl'.result = "false"
             /\ dl'.partial = NoFile
             /\ dl'.wait = dl.wait
             /\ dl'.attempt = dl.attempt
       /\ (dl.partial # NoFile /\ dl'.partial = NoFile) =>
             \/ dl'.result = "true" /\ dl'.exe = dl.partial
             \/ dl'.error = "unexpected"]_vars

(***************************************************************************)
(* The save specification: _auto_save_results and action_save_results on   *)
(* every result state with up to MaxFound discovered resolvers, with and   *)
(* without validation.  With validation every discovered resolver has a    *)
(* status (_process_result sets Pending when it records the resolver).     *)
(***************************************************************************)
MaxFound == 3

SaveAddrs == {IP(10, 0, 4, i) : i \in 1..MaxFound}
SaveTimes == {50, 120}
SaveStatuses == {"Pending", "Testing", "Success", "Failed"}

\* server_times: a dict, so no address twice; insertion order is kept.
SaveServerTimes ==
    {st \in SeqsUpTo([ip : SaveAddrs, rt : SaveTimes], MaxFound) :
        \A i, j \in 1..Len(st) : st[i].ip = st[j].ip => i = j}

SaveInit ==
    /\ subnet_file = <<>>
    /\ readable = FALSE
    /\ concurrency = 0
    /\ test_slipstream \in BOOLEAN
    /\ gen = NewGen
    /\ ip_chunk = <<>>
    /\ emitted = <<>>
    /\ sched_pc = "none"
    /\ active_tasks = {}
    /\ sem = 0
    /\ tasks = <<>>
    /\ report = "none"
    /\ auto_saved = NoSave
    /\ scan_started = TRUE
    /\ is_paused = FALSE
    /\ pause_event = TRUE
    /\ \E st \in SaveServerTimes :
       \E found \in {{st[i].ip : i \in 1..Len(st)}} :
       \E pr \in (IF test_slipstream THEN [found -> SaveStatuses] ELSE {<<>>}) :
          InitResults(rebuild_table(
              [FreshResults EXCEPT !.current_scanned = Len(st),
                                   !.found_servers = found,
                                   !.server_times = st,
                                   !.proxy_results = pr,
                                   !.table_needs_rebuild = TRUE]))
    /\ slipstream_semaphore = 0
    /\ available_ports = <<>>
    /\ IdleUnits

\* _auto_save_results on the results as they are.
AutoSave ==
    /\ auto_saved.state = "none"
    /\ auto_saved' = auto_save(Results, test_slipstream)
    /\ UNCHANGED <<formVars, streamVars, gateVars, resultVars, poolVars, unitVars,
                   sched_pc, active_tasks, sem, tasks, report>>

\* action_save_results (the Save button or its key) on the results as they
\* are.
ManualSave ==
    /\ saved.state = "none"
    /\ saved' = save_results(Results, test_slipstream)
    /\ UNCHANGED <<scanVars, probe, processes, dl, tbl, ptest>>

SaveNext == AutoSave \/ ManualSave

SpecSave == SaveInit /\ [][SaveNext]_vars

\* The addresses a save has to write, and the recorded time of one.
ToSave ==
    {ip \in found_servers :
        test_slipstream => proxy_status(proxy_results, ip) = "Success"}

TimeOf(ip) ==
    (CHOOSE e \in {server_times[i] : i \in DOMAIN server_times} : e.ip = ip).rt

\* list holds exactly the addresses of ToSave, each once, in ascending
\* latency.
SavedListRight(list) ==
    /\ {list[i] : i \in DOMAIN list} = ToSave
    /\ Len(list) = Cardinality(ToSave)
    /\ \A i, j \in DOMAIN list : i < j => TimeOf(list[i]) <= TimeOf(list[j])

\* C22: every address list that a save writes (the text file of the
\* auto-save, the text file and the JSON list of the manual save) holds
\* exactly the discovered addresses whose status is Success when validation
\* is enabled, exactly the discovered addresses otherwise, each once and in
\* ascending latency.
C22_SavedListFilteredAndSorted ==
    /\ auto_saved.state = "written" => SavedListRight(auto_saved.ips)
    /\ saved.state = "written" =>
          SavedListRight(saved.ips) /\ SavedListRight(saved.servers)

\* Both saves have written, with validation enabled, two of three
\* discovered resolvers: the slower one was discovered first, the third
\* did not pass.
C22_Witness ==
    /\ test_slipstream
    /\ Len(server_times) = 3
    /\ Cardinality(ToSave) = 2
    /\ auto_saved.state = "written"
    /\ saved.state = "written"
    /\ \E i, j \in DOMAIN server_times :
          /\ i < j
          /\ {server_times[i].ip, server_times[j].ip} = ToSave
          /\ server_times[i].rt > server_times[j].rt

\* C23: a save with nothing to save writes no file and reports it; a save
\* with exactly one discovered resolver, whose status is Success, writes
\* that address to the text file and to the JSON file.
C23_EmptyAndSingleSave ==
    \A out \in {auto_saved, saved} :
        out.state # "none" =>
            /\ ToSave = {} => (out.state = "nothing" /\ out.files = {})
            /\ (test_slipstream /\ Cardinality(found_servers) = 1 /\ ToSave = found_servers) =>
                  /\ out.state = "written"
                  /\ out.files = {"json", "txt"}
                  /\ {out.ips[i] : i \in DOMAIN out.ips} = ToSave /\ Len(out.ips) = 1
                  /\ {out.servers[i] : i \in DOMAIN out.servers} = ToSave
                  /\ Len(out.servers) = 1

(***************************************************************************)
(* The start specification: from the start form, through the download of   *)
(* the tunnel client when it is needed, to the end of the scan.  The       *)
(* download is called as the program calls it, with the default retry      *)
(* count and delay, for a file of one chunk.                               *)
(***************************************************************************)
StartFile == <<Cidr(A1, 32), Cidr(B30, 32)>>

\* The files of the tunnel client before the start: installed or not, with
\* or without a partial file of an earlier run.
StartDownloads ==
    {[invoke(1, partial, exe, DefaultMaxRetries, DefaultRetryDelay, 1)
         EXCEPT !.pc = "idle", !.attempt = 0] :
        partial \in {NoFile, 0}, exe \in {NoFile, 1}}

StartInit ==
    /\ subnet_file = StartFile
    /\ readable = TRUE
    /\ concurrency \in 1..MaxConcurrency
    /\ test_slipstream \in BOOLEAN
    /\ gen = NewGen
    /\ ip_chunk = <<>>
    /\ emitted = <<>>
    /\ sched_pc = "form"
    /\ active_tasks = {}
    /\ sem = 0
    /\ tasks = <<>>
    /\ report = "none"
    /\ auto_saved = NoSave
    /\ scan_started = FALSE
    /\ is_paused = FALSE
    /\ pause_event = TRUE
    /\ EmptyResults
    /\ slipstream_semaphore = 0
    /\ available_ports = <<>>
    /\ probe = NoProbe
    /\ processes = <<>>
    /\ saved = NoSave
    /\ tbl = NoTable /\ ptest = NoProxyTest
    /\ dl \in StartDownloads

\* A start that never downloads.
needs_downloadMutNever(slip, exe) == FALSE

\* Line 809: self.test_slipstream and not self.slipstream_manager.is_installed()
needs_download(slip, exe) == slip /\ exe = NoFile

\* _start_scan_from_form, lines 808-837, with a valid form: the download
\* worker is started, or scan_started is set and _scan_async is started.
StartScan ==
    /\ sched_pc = "form"
    /\ IF needs_download(test_slipstream, dl.exe)
       THEN /\ sched_pc' = "download"
            /\ dl' = invoke(dl.total, dl.partial, dl.exe, dl.max_retries,
                            dl.retry_delay, 1)
            /\ UNCHANGED scan_started
       ELSE /\ sched_pc' = "reset"
            /\ scan_started' = TRUE
            /\ UNCHANGED dl
    /\ UNCHANGED <<formVars, streamVars, is_paused, pause_event, resultVars, poolVars,
                   active_tasks, sem, tasks, report, auto_saved, probe, processes,
                   saved, tbl, ptest>>

\* _download_and_start_scan, lines 856-878: download_with_ui has returned.
\* On success scan_started is set and _scan_async runs; on failure the
\* failure is logged and notified and the worker ends.
DownloadReturned ==
    /\ sched_pc = "download"
    /\ dl.pc = "returned"
    /\ IF dl.result = "true"
       THEN /\ sched_pc' = "reset"
            /\ scan_started' = TRUE
            /\ UNCHANGED report
       ELSE /\ sched_pc' = "failed"
            /\ report' = "download_failed"
            /\ UNCHANGED scan_started
    /\ UNCHANGED <<formVars, streamVars, is_paused, pause_event, resultVars, poolVars,
                   active_tasks, sem, tasks, auto_saved, unitVars>>

\* The download runs only in its worker; the Save key is followed here
\* while the scan is not running.
StartNext ==
    \/ StartScan
    \/ sched_pc = "download" /\ (DlRequest \/ DlChunk \/ DlStreamError \/ DlComplete \/ DlWake)
    \/ DownloadReturned
    \/ sched_pc \in {"form", "download", "failed"} /\ ManualSave
    \/ ScanStep
    \/ SchedGather
    \/ \E v \in DOMAIN vtasks :
          ValidationStart(v) \/ ValidationFinish(v) \/ ValidationDiscard(v)

SpecStart == StartInit /\ [][StartNext]_vars

\* C24: as long as validation is requested and the tunnel client is not
\* installed no probe task exists and the scan has not been started; after
\* a failed download the failure is reported, no probe and no validation
\* exists, no file is saved, and it stays so.
C24_NoScanBeforeDownload ==
    /\ []((test_slipstream /\ dl.exe = NoFile) =>
             /\ tasks = <<>>
             /\ ~scan_started
             /\ sched_pc \in {"form", "download", "failed"})
    /\ []((dl.pc = "returned" /\ dl.result = "false" /\ sched_pc # "download") =>
             /\ sched_pc = "failed"
             /\ report = "download_failed"
             /\ ~scan_started
             /\ tasks = <<>> /\ vtasks = <<>>
             /\ auto_saved.files = {} /\ saved.files = {})
    /\ [][sched_pc = "failed" => sched_pc' = "failed"]_vars

\* Two runs: a download that failed at every attempt, reported, with a
\* manual save that found nothing to write; a download that succeeded
\* after a retry, followed by a scan with a validation.
C24_WitnessFailed ==
    /\ sched_pc = "failed"
    /\ dl.requests = DefaultMaxRetries
    /\ saved.state = "nothing"

C24_Witness ==
    /\ sched_pc = "done"
    /\ test_slipstream
    /\ dl.result = "true"
    /\ dl.failures > 0
    /\ \E v \in DOMAIN vtasks : vtasks[v].pc = "done"

(***************************************************************************)
(* The batch specification: the scan loop on files of more addresses than  *)
(* one chunk, without validation and without pauses.                       *)
(***************************************************************************)
\* Two /30 networks (two hosts each), three single addresses, and two
\* files whose last chunk is shorter than chunk_size: a /30 network with a
\* single address, and a single address alone.
BatchFiles ==
    { <<Cidr(B30, 30), Cidr(IP(10, 0, 3, 9), 30)>>,
      <<Cidr(A1, 32), Cidr(IP(10, 0, 0, 2), 32), Cidr(IP(10, 0, 0, 3), 32)>>,
      <<Cidr(B30, 30), Cidr(A1, 32)>>,
      <<Cidr(A1, 32)>> }

BatchInit ==
    /\ subnet_file \in BatchFiles
    /\ readable = TRUE
    /\ concurrency \in 1..MaxConcurrency
    /\ test_slipstream = FALSE
    /\ gen = NewGen
    /\ ip_chunk = <<>>
    /\ emitted = <<>>
    /\ sched_pc = "reset"
    /\ active_tasks = {}
    /\ sem = 0
    /\ tasks = <<>>
    /\ report = "none"
    /\ auto_saved = NoSave
    /\ scan_started = TRUE
    /\ is_paused = FALSE
    /\ pause_event = TRUE
    /\ EmptyResults
    /\ slipstream_semaphore = 0
    /\ available_ports = <<>>
    /\ IdleUnits

SpecBatch == BatchInit /\ [][ScanStep]_vars

\* C25 as stated: the probe tasks that have been created and whose result
\* has not been processed are never more than chunk_size.
C25_InFlightWithinChunk == Cardinality(active_tasks) <= chunk_size

\* C26 as stated: once probe tasks exist, every step that brings the
\* scheduler back to the generator has processed at least one result in
\* that step (the wait for the first completion).
C26_EveryRequestGated ==
    [][(sched_pc # "fetch" /\ sched_pc' = "fetch" /\ tasks' # <<>>) =>
          (sched_pc = "wait" /\ current_scanned' > current_scanned)]_vars

\* C26 amended: once probe tasks exist, a step that brings the scheduler
\* back to the generator either has processed at least one result in that
\* step, or is an admission that leaves fewer than chunk_size tasks in
\* flight, after which the generator has no further chunk to give (whether
\* it has one does not depend on the draw of the random source).
C26_FirstCompletionGated ==
    [][(sched_pc # "fetch" /\ sched_pc' = "fetch" /\ tasks' # <<>>) =>
          \/ sched_pc = "wait" /\ current_scanned' > current_scanned
          \/ /\ Cardinality(active_tasks') < chunk_size
             /\ stream_next(gen', subnet_file, readable, 0).pc = "done"]_vars

\* The scan of the /30 network with the single address has ended: its
\* first chunk was full and the generator was resumed after a result was
\* processed, its second chunk was the short last one.
C26_Witness ==
    /\ sched_pc = "done"
    /\ Len(subnet_file) = 2
    /\ Len(emitted) = chunk_size + 1
    /\ Len(ip_chunk) = 1
    /\ current_scanned = Len(emitted)

(***************************************************************************)
(* The ranking table specification: a scan followed with the clock of the  *)
(* ranking table, from the start form to its end.  Every row, every status *)
(* and every rebuild comes from the steps of the scan: _process_result and *)
(* _add_result in the loops of _scan_async, _queue_slipstream_test in the  *)
(* validation tasks, and the rebuilds of lines 996 and 1003.               *)
(***************************************************************************)
\* A file in which one address comes twice, a file of two addresses and a
\* file of three.
TableFiles ==
    { <<Cidr(A1, 32), Cidr(A1, 32)>>,
      <<Cidr(A1, 32), Cidr(IP(10, 0, 0, 2), 32)>>,
      <<Cidr(A1, 32), Cidr(IP(10, 0, 0, 2), 32), Cidr(IP(10, 0, 0, 3), 32)>> }

\* The state in which _scan_async starts: the pool is the empty deque and
\* the semaphore the None of __init__ (lines 623-624) until ScanReset gives
\* them their slots and ports (lines 895-896).  The scan of a file of three
\* addresses is followed without validation.
TableInit ==
    /\ subnet_file \in TableFiles
    /\ readable = TRUE
    /\ concurrency = MaxConcurrency
    /\ test_slipstream \in BOOLEAN
    /\ test_slipstream => Len(subnet_file) = 2
    /\ gen = NewGen
    /\ ip_chunk = <<>>
    /\ emitted = <<>>
    /\ sched_pc = "reset"
    /\ active_tasks = {}
    /\ sem = 0
    /\ tasks = <<>>
    /\ report = "none"
    /\ auto_saved = NoSave
    /\ scan_started = TRUE
    /\ is_paused = FALSE
    /\ pause_event = TRUE
    /\ EmptyResults
    /\ slipstream_semaphore = 0
    /\ available_ports = <<>>
    /\ probe = NoProbe /\ processes = <<>> /\ dl = NoDownload /\ saved = NoSave
    /\ tbl = NewTable /\ ptest = NoProxyTest

\* time.time() moves on between two steps of the event loop; the time is
\* counted from the start of the scan (line 900).
TableTick ==
    /\ sched_pc # "reset"
    /\ tbl.pc = "clock"
    /\ tbl.now < MaxTime
    /\ tbl' = [tbl EXCEPT !.now = @ + 1]
    /\ UNCHANGED <<scanVars, otherUnits>>

\* The steps of the scan (the pause gate stays open) and the clock.
TableNext ==
    \/ TableTick
    \/ ScanReset
    \/ ScanCount
    \/ SchedFetch
    \/ SchedAdmit
    \/ SchedGate
    \/ SchedBatch
    \/ SchedDrain
    \/ SchedGather
    \/ \E t \in DOMAIN tasks : ProbeStart(t) \/ ProbeAcquire(t) \/ ProbeFinish(t)
    \/ \E v \in DOMAIN vtasks :
          ValidationStart(v) \/ ValidationFinish(v) \/ ValidationDiscard(v)

SpecTable == TableInit /\ [][TableNext]_vars

\* C27: any two rebuilds of the table that run before the rebuilds of the
\* scan's end are at least two seconds apart.
C27_RebuildOncePerInterval ==
    (tbl.pc # "none" /\ tbl.prev_rebuild >= 0) =>
        tbl.last_rebuild - tbl.prev_rebuild >= RebuildInterval

\* C28: whenever the table is not marked for a rebuild, every row shows the
\* status recorded for its resolver.
C28_CleanTableShowsStatus ==
    (tbl.pc # "none" /\ ~table_needs_rebuild) =>
        \A i \in 1..Len(table) :
            table[i].proxy = proxy_status(proxy_results, table[i].ip)

\* C29: every rebuild that has run left the table listing every discovered
\* resolver once with its current status, by ascending latency, ties in
\* discovery order; and so does the table when the scan has finished.
C29_TableRankedAfterRebuild ==
    tbl.pc # "none" =>
        /\ tbl.ranked
        /\ sched_pc = "done" =>
              /\ TableRanked(table, server_times, proxy_results)
              /\ {table[i].ip : i \in 1..Len(table)} = found_servers

\* A finished scan whose rebuilds had to put two resolvers of equal latency
\* before the one discovered first, the two in their discovery order, which
\* is not the order of their addresses.
C29_Witness ==
    /\ tbl.pc # "none"
    /\ sched_pc = "done"
    /\ Len(table) = 3
    /\ table[1].rt = table[2].rt
    /\ table[2].rt < table[3].rt
    /\ server_times[1].ip = table[3].ip
    /\ table[1].ip > table[2].ip
    /\ tbl.flip

(***************************************************************************)
(* _test_slipstream_proxy step by step: the launch, the readiness wait,    *)
(* the HTTP request, the SOCKS5 request, the finally block.  The input is  *)
(* what the subprocess and the two requests do.                            *)
(***************************************************************************)
\* Line 1404: asyncio.timeout(15)
ReadyTimeout == 15

\* What standard output does ("marker", "eof", "error": readline raises,
\* "silent": nothing) and the second at which it does it.
ReadyEvents == {"marker", "eof", "error", "silent"}
ReadyTimes == {3, 14, 16}

\* The status code of a response; 0: the request raised (refused, reset,
\* timed out).
ProxyStatuses == {0, 200, 301, 302, 404, 503}

\* Lines 1403-1417: how the readiness wait ends.
readiness_wait(ready, at) ==
    IF ready = "silent" \/ at >= ReadyTimeout THEN "timeout" ELSE ready

\* A test that takes the end of the output for the marker.
connection_readyMutEof(seen) == seen \in {"marker", "eof"}

\* Lines 1402-1419: connection_ready after the loop.
connection_ready(seen) == seen = "marker"

\* Line 1438: 'except Exception' is entered when the HTTP request raised.
http_raised(status) == status = 0

NewProxyTest(env, at) ==
    [pc |-> "launch", env |-> env, at |-> at, process |-> "none",
     seen |-> "none", requests |-> <<>>, result |-> "none"]

ProxyInit ==
    /\ NoScan
    /\ probe = NoProbe /\ processes = <<>> /\ dl = NoDownload /\ saved = NoSave
    /\ tbl = NoTable
    /\ \E l \in {"ok", "fail"}, r \in ReadyEvents, at \in ReadyTimes,
          h \in ProxyStatuses, s \in ProxyStatuses :
          ptest = NewProxyTest(ProxyEnv(l, r, h, s), at)

ProxyFrame == UNCHANGED <<scanVars, probe, processes, dl, saved, tbl>>

\* Lines 1391-1399; a launch that raises goes to 'except Exception' (line
\* 1455) with process None.
ProxyLaunch ==
    /\ ptest.pc = "launch"
    /\ ptest' = IF ptest.env.launch = "ok"
                THEN [ptest EXCEPT !.pc = "readiness", !.process = "running"]
                ELSE [ptest EXCEPT !.pc = "done", !.result = "Failed"]
    /\ ProxyFrame

\* Lines 1401-1420.
ProxyReadiness ==
    /\ ptest.pc = "readiness"
    /\ LET seen == readiness_wait(ptest.env.ready, ptest.at)
       IN  ptest' = IF seen \in {"timeout", "error"} \/ ~connection_ready(seen)
                    THEN [ptest EXCEPT !.pc = "finally", !.seen = seen,
                                       !.result = "Failed"]
                    ELSE [ptest EXCEPT !.pc = "http", !.seen = seen]
    /\ ProxyFrame

\* Lines 1427-1437: the request through the port as an HTTP proxy.
ProxyHttp ==
    /\ ptest.pc = "http"
    /\ ptest' = IF http_raised(ptest.env.http)
                THEN [ptest EXCEPT !.pc = "socks",
                                   !.requests = Append(@, "http")]
                ELSE [ptest EXCEPT !.pc = "finally",
                                   !.requests = Append(@, "http"),
                                   !.result = IF ptest.env.http \in GoodStatus
                                              THEN "Success" ELSE "Failed"]
    /\ ProxyFrame

\* Lines 1438-1453: the request through the port as a SOCKS5 proxy.
ProxySocks ==
    /\ ptest.pc = "socks"
    /\ ptest' = [ptest EXCEPT !.pc = "finally",
                              !.requests = Append(@, "socks5"),
                              !.result = IF ptest.env.socks \in GoodStatus
                                         THEN "Success" ELSE "Failed"]
    /\ ProxyFrame

\* Lines 1458-1465: the finally block, process.kill() and process.wait().
ProxyFinally ==
    /\ ptest.pc = "finally"
    /\ ptest' = [ptest EXCEPT !.pc = "done", !.process = "reaped"]
    /\ ProxyFrame

ProxyNext ==
    \/ ProxyLaunch
    \/ ProxyReadiness
    \/ ProxyHttp
    \/ ProxySocks
    \/ ProxyFinally

SpecProxy == ProxyInit /\ [][ProxyNext]_vars

\* C31: a proxy request is made only after the readiness marker was read;
\* when the wait ends by its deadline or by the end of the output, the
\* result is Failed and no proxy request is made.
C31_NoRequestBeforeReady ==
    ptest.pc # "none" =>
        /\ ptest.requests # <<>> =>
              /\ ptest.seen = "marker"
              /\ ptest.env.ready = "marker" /\ ptest.at < ReadyTimeout
        /\ (ptest.pc = "done" /\ ptest.seen \in {"timeout", "eof"}) =>
              ptest.result = "Failed" /\ ptest.requests = <<>>

\* A test whose marker came after the deadline, with a proxy that would
\* have answered.
C31_Witness ==
    /\ ptest.pc = "done"
    /\ ptest.seen = "timeout"
    /\ ptest.env.ready = "marker"
    /\ ptest.env.http = 200
    /\ ptest.result = "Failed"

\* C32: after readiness, an HTTP attempt that does not give Success (it
\* raised or returned a status other than 200, 301, 302) is followed by the
\* SOCKS5 attempt, and the result is Success exactly when one of the
\* attempts made returned 200, 301 or 302.
C32_SocksAfterAnyHttpFailure ==
    (ptest.pc = "done" /\ ptest.seen = "marker") =>
        /\ ptest.env.http \notin GoodStatus =>
              ptest.requests = <<"http", "socks5">>
        /\ ptest.result = "Success" <=>
              \/ ptest.env.http \in GoodStatus
              \/ Len(ptest.requests) = 2 /\ ptest.env.socks \in GoodStatus

\* The failures named as network failures: a timeout, a connection error,
\* a broken connection or a protocol violation in the middle of the body,
\* a rejected status.
NetworkClass == {"timeout", "network", "protocol", "status"}

\* C33: a request or a body that fails by a network failure leaves the
\* partial file as it is and is followed by the wait before the next
\* attempt or, at the last attempt, by the return of False; it never
\* deletes the partial file.
C33_NetworkFailuresKeepPartial ==
    [][(dl.pc \in {"attempt", "stream"} /\ dl'.pc \in {"sleep", "returned"}
          /\ dl'.error \in NetworkClass) =>
          /\ dl'.partial = dl.partial
          /\ \/ dl'.pc = "sleep"
             \/ dl'.result = "false" /\ dl.attempt = dl.max_retries]_vars

\* C34: an attempt starts its count of downloaded bytes at the size of the
\* partial file (the offset its request asks for), and from there to the
\* end of the attempt the count never goes down, whatever the server
\* answers.
C34_DownloadedNeverDecreases ==
    [][/\ (dl.pc = "attempt" /\ dl'.requests = dl.requests + 1) =>
             /\ dl'.rng = range_header(file_size(dl.partial))
             /\ dl'.downloaded >= file_size(dl.partial)
       /\ (dl.pc = "stream" /\ dl'.requests = dl.requests) =>
             dl'.downloaded >= dl.downloaded]_vars

\* C35: from the start of a download to its end, an executable that exists
\* at the destination is never absent in between: a step never takes the
\* destination from a file to no file.
C35_DestinationNeverAbsent ==
    [][(dl.pc # "none" /\ dl.exe # NoFile) => dl'.exe # NoFile]_vars

\* C36: the stream never emits the network address or the broadcast
\* address of a range of the file that holds more than one address, and
\* once it has ended it has emitted the address of every single-address
\* range.
C36_NoNetworkNoBroadcast ==
    \A i \in ValidLines :
        IF num_addresses(RangeOf(i)) > 1
        THEN /\ RangeOf(i).addr \notin EmittedSet
             /\ LastAddr(RangeOf(i)) \notin EmittedSet
        ELSE gen.pc = "done" => RangeOf(i).addr \in EmittedSet

(***************************************************************************)
(* The fair validation specification.  The event loop runs every           *)
(* validation task that is ready: a launch returns or raises, the          *)
(* readiness wait and each proxy request end within their 15 s timeouts, a *)
(* killed process exits.  Nothing is cancelled.                            *)
(***************************************************************************)
Candidates == 1..NumCandidates

\* A step of a validation task or of one of its callbacks.
ValidationStep ==
    \E v \in Candidates :
        \/ ValidationStart(v)
        \/ SlipstreamLaunch(v)
        \/ SlipstreamTest(v)
        \/ SlipstreamReaped(v)
        \/ ValidationDiscard(v)

ValidationFairness == WF_vars(SchedGather) /\ WF_vars(ValidationStep)

SpecValidationLive ==
    ValidationInit /\ [][ValidationNext]_vars /\ ValidationFairness

StatusOf(v) == proxy_status(proxy_results, tasks[v].ip)

\* C37: every candidate is Pending at first; a status changes from Pending
\* to Testing and from Testing to Success or Failed only; and in the end
\* every candidate is Success or Failed, whatever the number of candidates
\* waiting for the slots and the ports.
C37_ValidationProgress ==
    /\ \A v \in Candidates : StatusOf(v) = "Pending"
    /\ [][\A v \in Candidates :
             \/ StatusOf(v)' = StatusOf(v)
             \/ StatusOf(v) = "Pending" /\ StatusOf(v)' = "Testing"
             \/ StatusOf(v) = "Testing" /\ StatusOf(v)' \in {"Success", "Failed"}]_vars
    /\ <>(\A v \in Candidates : StatusOf(v) \in {"Success", "Failed"})

\* A candidate is Pending behind a full set of slots: every slot is taken
\* and every port is out.
C37_Witness ==
    /\ slipstream_semaphore = 0
    /\ available_ports = <<>>
    /\ \E v \in Candidates : vtasks[v].pc = "sem" /\ StatusOf(v) = "Pending"
    /\ \E v \in Candidates : vtasks[v].pc = "killing" /\ StatusOf(v) = "Testing"

\* C38 (checked under SpecLive): for every concurrency the start form
\* takes, if every probe ends and the pause gate is not left closed for
\* ever, the scan reaches its end with a result for every emitted address.
C38_ScanTerminates ==
    (<>[]pause_event) => <>ScanEnded

\* C39 (checked under Spec): with validation enabled, when the auto-save
\* of the scan's end has run, every validation task created during the
\* scan has ended and no discovered resolver is Pending or Testing.
C39_AutoSaveAfterValidations ==
    (test_slipstream /\ auto_saved.state # "none") =>
        /\ \A v \in DOMAIN vtasks : vtasks[v].pc = "done"
        /\ slipstream_tasks = {}
        /\ \A ip \in found_servers :
               proxy_status(proxy_results, ip) \in {"Success", "Failed"}

\* An auto-save after validations that passed one resolver and failed
\* another.
C39_Witness ==
    /\ test_slipstream
    /\ auto_saved.state = "written"
    /\ \E ip \in found_servers : proxy_results[ip] = "Success"
    /\ \E ip \in found_servers : proxy_results[ip] = "Failed"

\* C40 (checked under SpecValidation): the free ports are as many as the
\* free slots, so a task that has taken a slot finds a port at its first
\* look at the pool: no task is ever in the polling loop of lines
\* 1349-1350.
C40_PortReadyInSlot ==
    /\ Len(available_ports) = slipstream_semaphore
    /\ \A v \in DOMAIN vtasks : vtasks[v].pc # "port"

\* Every slot is taken, one of them by a task that came in after another
\* had ended and returned its port.
C40_Witness ==
    /\ slipstream_semaphore = 0
    /\ \E v \in DOMAIN vtasks : vtasks[v].pc = "done"
    /\ \E v \in DOMAIN vtasks :
          /\ vtasks[v].pc = "running"
          /\ vtasks[v].port = slipstream_base_port
          /\ v > slipstream_max_concurrent

=============================================================================
